---- MODULE Spec2Model ----
(***************************************************************************)
(* Model of services/audio/server.py: the synthesis orchestrator, the      *)
(* capability prober, the model cache and the secondary (kokoro-node)      *)
(* backend invoker.                                                        *)
(*                                                                         *)
(* Every function of the source that touches RuntimeState, the output      *)
(* files or a child process is an operator that maps a world w (the        *)
(* RuntimeState, the files on disk, the events of the running call) to the *)
(* SET of outcomes the function can have there: the set has more than one  *)
(* element where the outcome depends on something outside the program (a   *)
(* child's exit code, an import, the loader, a disk write).  Each handler  *)
(* is one action that picks its arguments and one outcome.                 *)
(*                                                                         *)
(* Spec is the process serving one request after the other.  The functions *)
(* on text and numbers (voice resolution, speech normalisation, expression *)
(* tags, tag extraction, the stub's arithmetic, the renderer's calls) have *)
(* a specification each, which draws the arguments at the start and        *)
(* applies the function.  SpecModes is one request for every value of the  *)
(* backend mode.  SpecThreads is two requests served at once, one read or  *)
(* write of RuntimeState per step.                                         *)
(***************************************************************************)
EXTENDS Integers, Sequences, FiniteSets, TLC

VARIABLES
    state,         \* the RuntimeState singleton (server.py:117-127)
    files,         \* output path -> who produced the audio stored there
    calls,         \* number of operations run so far in this process
    probe_spawns,  \* number of probe child processes spawned so far
    load_calls,    \* model kind -> number of loader invocations so far
    last,          \* the last operation: arguments, environment, result, events
    threads        \* thread -> the request it serves: where it is, and its locals

vars == <<state, files, calls, probe_spawns, load_calls, last, threads>>

----------------------------------------------------------------------------
(* Bounds *)

MaxCalls == 2

----------------------------------------------------------------------------
(* Values *)

None == "None"
Unset == "<unset>"
NoHandle == 0

ModelKinds == {"kokoro", "chatterbox"}
OutputPaths == {"seg-a.wav"}

NoFile == [engine |-> "none", call |-> 0]

\* values of LOCAL_PODCAST_ENABLE_MLX
EnableValues == {Unset, "0", "False"}
\* values of LOCAL_PODCAST_KOKORO_BACKEND
BackendValues == {Unset, " Node-First ", "python"}
\* LOCAL_PODCAST_<KIND>_MODEL is one of Unset, "", "hf/custom" and
\* LOCAL_PODCAST_MODELS_DIR one of Unset, "  ", "/models": see SourceEnvs

\* os.getenv(name, default)
Getenv(value, default) == IF value = Unset THEN default ELSE value

\* str.strip().lower() on the environment values above
StripLower(s) ==
    CASE s = "False" -> "false"
      [] s = " Node-First " -> "node-first"
      [] s = " Auto " -> "auto"
      [] s = "NODE" -> "node"
      [] s = "Python-Node" -> "python-node"
      [] s = "  " -> ""
      [] OTHER -> s

\* str(Path(models_dir) / model_kind), "/models" being the one directory
LocalDir(models_dir, model_kind) ==
    IF model_kind = "kokoro" THEN "/models/kokoro" ELSE "/models/chatterbox"

RuntimeState ==
    [model_cache |-> [k \in ModelKinds |-> NoHandle],
     model_source |-> [k \in ModelKinds |-> None],
     mlx_probe_attempted |-> FALSE,
     mlx_probe_available |-> FALSE,
     mlx_probe_error |-> None,
     mlx_load_model |-> None]

\* the world a call runs in
World(st, fs, lc, id) == [st |-> st, fs |-> fs, lc |-> lc, id |-> id, ev |-> <<>>]

Emit(w, e) == [w EXCEPT !.ev = Append(@, e)]

Ret(w, val) == [w |-> w, exc |-> None, val |-> val]
Raise(w, exc, val) == [w |-> w, exc |-> exc, val |-> val]

Count(ev, e) == Cardinality({i \in 1..Len(ev) : ev[i] = e})
Has(ev, e) == \E i \in 1..Len(ev) : ev[i] = e

----------------------------------------------------------------------------
(* Capability prober *)

mlx_runtime_enabled(env) ==
    StripLower(Getenv(env.ENABLE_MLX, "1")) \notin {"0", "false", "no"}

ProbeOutcomes == {"exit0", "exit1", "timeout"}

\* probe_mlx_runtime with no early return
probe_mlx_runtime_unguarded(w) ==
    LET a == Emit([w EXCEPT !.st.mlx_probe_attempted = TRUE], "probe_spawn")
    IN  { CASE o = "exit0" ->
                  [a EXCEPT !.st.mlx_probe_available = TRUE]
            [] o = "exit1" ->
                  [a EXCEPT !.st.mlx_probe_available = FALSE,
                            !.st.mlx_probe_error = "probe_exit_1"]
            [] OTHER ->
                  [a EXCEPT !.st.mlx_probe_available = FALSE,
                            !.st.mlx_probe_error = "TimeoutExpired"]
          : o \in ProbeOutcomes }

\* probe_mlx_runtime that returns early only after a probe that succeeded
probe_mlx_runtime_retry(w) ==
    IF w.st.mlx_probe_attempted /\ w.st.mlx_probe_available
    THEN {w}
    ELSE probe_mlx_runtime_unguarded(w)

probe_mlx_runtime(w) ==
    IF w.st.mlx_probe_attempted
    THEN {w}
    ELSE LET a == Emit([w EXCEPT !.st.mlx_probe_attempted = TRUE], "probe_spawn")
         IN  { CASE o = "exit0" ->
                       [a EXCEPT !.st.mlx_probe_available = TRUE]
                 [] o = "exit1" ->
                       [a EXCEPT !.st.mlx_probe_available = FALSE,
                                 !.st.mlx_probe_error = "probe_exit_1"]
                 [] OTHER ->
                       [a EXCEPT !.st.mlx_probe_available = FALSE,
                                 !.st.mlx_probe_error = "TimeoutExpired"]
               : o \in ProbeOutcomes }

\* mlx_runtime_available that looks at the enable flag after probing
mlx_runtime_available_probe_first(w, env) ==
    { IF ~mlx_runtime_enabled(env) THEN Ret(p, FALSE) ELSE Ret(p, p.st.mlx_probe_available) :
        p \in (IF ~w.st.mlx_probe_attempted THEN probe_mlx_runtime(w) ELSE {w}) }

mlx_runtime_available(w, env) ==
    IF ~mlx_runtime_enabled(env)
    THEN {Ret(w, FALSE)}
    ELSE { Ret(p, p.st.mlx_probe_available) :
             p \in (IF ~w.st.mlx_probe_attempted THEN probe_mlx_runtime(w) ELSE {w}) }

\* get_mlx_loader that imports again when the loader is already set
get_mlx_loader_reimport(w, env) ==
    UNION { IF ~a.val
            THEN {Ret(a.w, None)}
            ELSE { Ret(Emit([a.w EXCEPT !.st.mlx_load_model = "load_model"], "import_ok"),
                       "load_model"),
                   Ret(Emit([a.w EXCEPT !.st.mlx_probe_available = FALSE,
                                        !.st.mlx_probe_error = "ImportError"], "import_failed"),
                       None) }
            : a \in mlx_runtime_available(w, env) }

get_mlx_loader(w, env) ==
    UNION { IF ~a.val
            THEN {Ret(a.w, None)}
            ELSE IF a.w.st.mlx_load_model # None
            THEN {Ret(a.w, a.w.st.mlx_load_model)}
            ELSE { Ret(Emit([a.w EXCEPT !.st.mlx_load_model = "load_model"], "import_ok"),
                       "load_model"),
                   Ret(Emit([a.w EXCEPT !.st.mlx_probe_available = FALSE,
                                        !.st.mlx_probe_error = "ImportError"], "import_failed"),
                       None) }
            : a \in mlx_runtime_available(w, env) }

----------------------------------------------------------------------------
(* Model cache *)

\* the value is the source, the exception is RuntimeError
resolve_model_source(model_kind, env) ==
    IF env.MODEL # Unset /\ env.MODEL # ""
    THEN [exc |-> None, val |-> env.MODEL]
    ELSE LET models_dir_value == StripLower(Getenv(env.MODELS_DIR, ""))
         IN  IF models_dir_value = ""
             THEN [exc |-> "RuntimeError", val |-> None]
             ELSE IF env.local_dir_exists
             THEN [exc |-> None, val |-> LocalDir(models_dir_value, model_kind)]
             ELSE [exc |-> "RuntimeError", val |-> None]

LoaderOutcomes == {"loaded", "raised"}

\* a handle is the number of the loader invocation that returned it
Loads(lc) == lc["kokoro"] + lc["chatterbox"]

\* get_or_load_model that loads on every call
get_or_load_model_no_cache(w, model_kind, env) ==
    UNION { IF l.val = None
            THEN {Raise(Emit(l.w, "loader_unavailable"), "RuntimeError", NoHandle)}
            ELSE LET source == resolve_model_source(model_kind, env)
                     c == Emit([l.w EXCEPT !.lc[model_kind] = @ + 1], "loader")
                 IN  IF source.exc # None
                     THEN {Raise(Emit(l.w, "source_unresolved"), source.exc, NoHandle)}
                     ELSE { IF o = "loaded"
                            THEN Ret([c EXCEPT !.st.model_cache[model_kind] = Loads(c.lc),
                                               !.st.model_source[model_kind] = source.val],
                                     Loads(c.lc))
                            ELSE Raise(c, "Exception", NoHandle)
                            : o \in LoaderOutcomes }
            : l \in get_mlx_loader(w, env) }

\* get_or_load_model that looks in the cache before it asks for the loader
get_or_load_model_cache_first(w, model_kind, env) ==
    IF w.st.model_cache[model_kind] # NoHandle
    THEN {Ret(Emit(w, "cache_hit"), w.st.model_cache[model_kind])}
    ELSE get_or_load_model_no_cache(w, model_kind, env)

\* get_or_load_model that records the source before it calls the loader
get_or_load_model_source_first(w, model_kind, env) ==
    UNION { IF l.val = None
            THEN {Raise(Emit(l.w, "loader_unavailable"), "RuntimeError", NoHandle)}
            ELSE IF l.w.st.model_cache[model_kind] # NoHandle
            THEN {Ret(Emit(l.w, "cache_hit"), l.w.st.model_cache[model_kind])}
            ELSE LET source == resolve_model_source(model_kind, env)
                     c == Emit([l.w EXCEPT !.lc[model_kind] = @ + 1,
                                           !.st.model_source[model_kind] = source.val],
                               "loader")
                 IN  IF source.exc # None
                     THEN {Raise(Emit(l.w, "source_unresolved"), source.exc, NoHandle)}
                     ELSE { IF o = "loaded"
                            THEN Ret([c EXCEPT !.st.model_cache[model_kind] = Loads(c.lc)],
                                     Loads(c.lc))
                            ELSE Raise(c, "Exception", NoHandle)
                            : o \in LoaderOutcomes }
            : l \in get_mlx_loader(w, env) }

get_or_load_model(w, model_kind, env) ==
    UNION { IF l.val = None
            THEN {Raise(Emit(l.w, "loader_unavailable"), "RuntimeError", NoHandle)}
            ELSE IF l.w.st.model_cache[model_kind] # NoHandle
            THEN {Ret(Emit(l.w, "cache_hit"), l.w.st.model_cache[model_kind])}
            ELSE LET source == resolve_model_source(model_kind, env)
                     c == Emit([l.w EXCEPT !.lc[model_kind] = @ + 1], "loader")
                 IN  IF source.exc # None
                     THEN {Raise(Emit(l.w, "source_unresolved"), source.exc, NoHandle)}
                     ELSE { IF o = "loaded"
                            THEN Ret([c EXCEPT !.st.model_cache[model_kind] = Loads(c.lc),
                                               !.st.model_source[model_kind] = source.val],
                                     Loads(c.lc))
                            ELSE Raise(c, "Exception", NoHandle)
                            : o \in LoaderOutcomes }
            : l \in get_mlx_loader(w, env) }

----------------------------------------------------------------------------
(* Secondary backend *)

kokoro_backend_mode(env) == StripLower(Getenv(env.KOKORO_BACKEND, "auto"))

should_try_node_before_python(model_kind, env) ==
    IF model_kind # "kokoro"
    THEN FALSE
    ELSE kokoro_backend_mode(env) \in {"node", "node-first"}

\* should_try_node_after_python that does not look at the model kind
should_try_node_after_python_any_kind(model_kind, env) ==
    kokoro_backend_mode(env) \in
        {"auto", "node", "node-first", "node-fallback", "python-node"}

should_try_node_after_python(model_kind, env) ==
    IF model_kind # "kokoro"
    THEN FALSE
    ELSE kokoro_backend_mode(env) \in
             {"auto", "node", "node-first", "node-fallback", "python-node"}

\* where the script is: LOCAL_PODCAST_KOKORO_NODE_SCRIPT, whether the file it
\* names exists, and whether kokoro-node/cli.mjs next to the service exists;
\* with the override set the sibling is there, to tell the two apart
ScriptLocations ==
    { [override |-> Unset, override_exists |-> FALSE, sibling_exists |-> TRUE],
      [override |-> Unset, override_exists |-> FALSE, sibling_exists |-> FALSE],
      [override |-> "/opt/cli.mjs", override_exists |-> TRUE, sibling_exists |-> TRUE],
      [override |-> "/opt/cli.mjs", override_exists |-> FALSE, sibling_exists |-> TRUE] }

\* the value is the script path, the exception is FileNotFoundError
resolve_kokoro_node_script_path(loc) ==
    IF Getenv(loc.override, "") # ""
    THEN IF loc.override_exists
         THEN [exc |-> None, val |-> loc.override]
         ELSE [exc |-> "FileNotFoundError", val |-> None]
    ELSE IF loc.sibling_exists
         THEN [exc |-> None, val |-> "services/kokoro-node/cli.mjs"]
         ELSE [exc |-> "FileNotFoundError", val |-> None]

\* what the child does: its exit and whether it wrote the output file
ChildOutcomes == {"exit0_wrote", "exit0_no_file", "exit1", "timeout"}

output_path_exists(w, output_path) == w.fs[output_path] # NoFile

\* one run of the invoker that reports success without looking for the file
synthesize_kokoro_node_unchecked(w, output_path, loc, o) ==
    LET script == resolve_kokoro_node_script_path(loc)
    IN  IF script.exc # None
        THEN Raise(Emit(w, "node_no_script"), script.exc, None)
        ELSE LET r == Emit(w, "node_launch")
                 c == IF o = "exit0_wrote"
                      THEN [r EXCEPT !.fs[output_path] =
                                [engine |-> "kokoro-node", call |-> w.id]]
                      ELSE r
             IN  IF o = "timeout"
                 THEN Raise(c, "TimeoutExpired", None)
                 ELSE IF o = "exit1"
                 THEN Raise(c, "RuntimeError", None)
                 ELSE Ret(Emit(c, "node_ok"), "kokoro-node")

\* one run of the invoker: the script is at loc and the child does o
synthesize_kokoro_node_run(w, output_path, loc, o) ==
    LET script == resolve_kokoro_node_script_path(loc)
    IN  IF script.exc # None
        THEN Raise(Emit(w, "node_no_script"), script.exc, None)
        ELSE LET r == Emit(w, "node_launch")
                 c == IF o = "exit0_wrote"
                      THEN [r EXCEPT !.fs[output_path] =
                                [engine |-> "kokoro-node", call |-> w.id]]
                      ELSE r
             IN  IF o = "timeout"
                 THEN Raise(c, "TimeoutExpired", None)
                 ELSE IF o = "exit1"
                 THEN Raise(c, "RuntimeError", None)
                 ELSE IF ~output_path_exists(c, output_path)
                 THEN Raise(c, "RuntimeError", None)
                 ELSE Ret(Emit(c, "node_ok"), "kokoro-node")

synthesize_kokoro_node(w, output_path) ==
    { synthesize_kokoro_node_run(w, output_path, loc, o)
      : loc \in ScriptLocations, o \in ChildOutcomes }

----------------------------------------------------------------------------
(* Primary backend and stub *)

RenderOutcomes == {"audio", "no_audio"}
WriteOutcomes == {"written", "failed"}

render_with_model(w) ==
    { IF o = "audio"
      THEN Ret(Emit(w, "render_ok"), "waveform")
      ELSE Raise(Emit(w, "render_failed"), "RuntimeError", None)
      : o \in RenderOutcomes }

write_waveform(w, output_path) ==
    { IF o = "written"
      THEN Ret(Emit([w EXCEPT !.fs[output_path] = [engine |-> "mlx-audio", call |-> w.id]],
                    "write_ok"), None)
      ELSE Raise(Emit(w, "write_failed"), "OSError", None)
      : o \in WriteOutcomes }

synthesize_mlx(w, output_path, model, env) ==
    UNION { IF m.exc # None
            THEN {Raise(m.w, m.exc, None)}
            ELSE UNION { IF r.exc # None
                         THEN {r}
                         ELSE write_waveform(r.w, output_path)
                         : r \in render_with_model(Emit(m.w, "load_ok")) }
            : m \in get_or_load_model(Emit(w, "get_or_load_model"), model, env) }

synthesize_stub(w, output_path) ==
    { IF o = "written"
      THEN Ret(Emit([w EXCEPT !.fs[output_path] = [engine |-> "stub", call |-> w.id]],
                    "stub_ok"), "stub")
      ELSE Raise(Emit(w, "stub_failed"), "OSError", None)
      : o \in WriteOutcomes }

----------------------------------------------------------------------------
(* Orchestrator *)

\* server.py:281-282 and 309-310; an error of the stub is not caught
stub_fallback(w, output_path) ==
    { IF s.exc # None THEN s ELSE Ret(s.w, "stub") : s \in synthesize_stub(w, output_path) }

\* node_after_python that runs the secondary a second time when it failed
node_after_python_retry(w, output_path, model, env) ==
    IF should_try_node_after_python(model, env)
    THEN UNION { IF n.exc = None
                 THEN {n}
                 ELSE UNION { IF m.exc = None THEN {m} ELSE stub_fallback(m.w, output_path)
                              : m \in synthesize_kokoro_node(n.w, output_path) }
                 : n \in synthesize_kokoro_node(w, output_path) }
    ELSE stub_fallback(w, output_path)

\* server.py:268-282 and 296-310
node_after_python(w, output_path, model, env) ==
    IF should_try_node_after_python(model, env)
    THEN UNION { IF n.exc = None THEN {n} ELSE stub_fallback(n.w, output_path)
                 : n \in synthesize_kokoro_node(w, output_path) }
    ELSE stub_fallback(w, output_path)

\* synthesize_python with no try/except around synthesize_mlx
synthesize_python_uncaught(w, output_path, model, env) ==
    UNION { IF ~a.val
            THEN node_after_python(Emit(a.w, "mlx_unavailable"), output_path, model, env)
            ELSE { IF x.exc = None THEN Ret(x.w, "mlx-audio") ELSE x
                   : x \in synthesize_mlx(Emit(a.w, "mlx_available"), output_path, model, env) }
            : a \in mlx_runtime_available(w, env) }

\* synthesize_python with the availability test left out
synthesize_python_unchecked(w, output_path, model, env) ==
    UNION { UNION { IF x.exc = None
                    THEN {Ret(x.w, "mlx-audio")}
                    ELSE node_after_python(Emit(x.w, "mlx_failed"), output_path, model, env)
                    : x \in synthesize_mlx(Emit(a.w, IF a.val THEN "mlx_available"
                                                              ELSE "mlx_unavailable"),
                                           output_path, model, env) }
            : a \in mlx_runtime_available(w, env) }

\* synthesize_python that falls back to the stub alone when synthesize_mlx fails
synthesize_python_stub_only(w, output_path, model, env) ==
    UNION { IF ~a.val
            THEN node_after_python(Emit(a.w, "mlx_unavailable"), output_path, model, env)
            ELSE UNION { IF x.exc = None
                         THEN {Ret(x.w, "mlx-audio")}
                         ELSE stub_fallback(Emit(x.w, "mlx_failed"), output_path)
                         : x \in synthesize_mlx(Emit(a.w, "mlx_available"), output_path, model, env) }
            : a \in mlx_runtime_available(w, env) }

\* server.py:267-310
synthesize_python(w, output_path, model, env) ==
    UNION { IF ~a.val
            THEN node_after_python(Emit(a.w, "mlx_unavailable"), output_path, model, env)
            ELSE UNION { IF x.exc = None
                         THEN {Ret(x.w, "mlx-audio")}
                         ELSE node_after_python(Emit(x.w, "mlx_failed"), output_path, model, env)
                         : x \in synthesize_mlx(Emit(a.w, "mlx_available"), output_path, model, env) }
            : a \in mlx_runtime_available(w, env) }

\* synthesize with no try/except around the node-first attempt
synthesize_node_first_uncaught(w, output_path, model, env) ==
    IF should_try_node_before_python(model, env)
    THEN synthesize_kokoro_node(Emit(w, "node_first"), output_path)
    ELSE synthesize_python(w, output_path, model, env)

synthesize(w, output_path, model, env) ==
    IF should_try_node_before_python(model, env)
    THEN UNION { IF n.exc = None
                 THEN {n}
                 ELSE synthesize_python(Emit(n.w, "node_first_failed"), output_path, model, env)
                 : n \in synthesize_kokoro_node(Emit(w, "node_first"), output_path) }
    ELSE synthesize_python(w, output_path, model, env)

\* model_status of health()
model_status(mlx_enabled, mlx_ready, has_model_dir) ==
    IF ~mlx_enabled THEN "mlx_disabled"
    ELSE IF mlx_ready /\ has_model_dir THEN "mlx_ready"
    ELSE IF mlx_ready THEN "mlx_ready_no_local_model_dir"
    ELSE "stub_only"

health(w, env) ==
    { LET models_dir_value == StripLower(Getenv(env.MODELS_DIR, ""))
          has_model_dir == models_dir_value # "" /\ env.models_dir_exists
      IN  Ret(a.w, [model_status |-> model_status(mlx_runtime_enabled(env), a.val, has_model_dir),
                    loaded_models |-> {k \in ModelKinds : a.w.st.model_cache[k] # NoHandle},
                    mlx_probe_error |-> a.w.st.mlx_probe_error])
      : a \in mlx_runtime_available(w, env) }

----------------------------------------------------------------------------
(* The process *)

\* the environment of one call: the variables and the directories it reads
NoEnv ==
    [ENABLE_MLX |-> Unset, KOKORO_BACKEND |-> Unset, MODEL |-> Unset,
     MODELS_DIR |-> Unset, local_dir_exists |-> FALSE, models_dir_exists |-> FALSE]

SourceEnvs ==
    { [NoEnv EXCEPT !.MODEL = "hf/custom"],
      [NoEnv EXCEPT !.MODEL = "hf/custom", !.MODELS_DIR = "/models",
                    !.local_dir_exists = TRUE, !.models_dir_exists = TRUE],
      [NoEnv EXCEPT !.MODEL = "", !.MODELS_DIR = "/models",
                    !.local_dir_exists = TRUE, !.models_dir_exists = TRUE],
      [NoEnv EXCEPT !.MODELS_DIR = "/models", !.models_dir_exists = TRUE],
      [NoEnv EXCEPT !.MODELS_DIR = "  "],
      NoEnv }

\* the two of them synthesize is run with
SynthSourceEnvs ==
    { [NoEnv EXCEPT !.MODELS_DIR = "/models", !.local_dir_exists = TRUE,
                    !.models_dir_exists = TRUE],
      [NoEnv EXCEPT !.MODELS_DIR = "/models", !.models_dir_exists = TRUE] }

Init ==
    /\ state = RuntimeState
    /\ files \in [OutputPaths -> {NoFile, [engine |-> "earlier-process", call |-> 0]}]
    /\ calls = 0
    /\ probe_spawns = 0
    /\ load_calls = [k \in ModelKinds |-> 0]
    /\ last = [op |-> "init", model |-> None, path |-> None, env |-> NoEnv,
               exc |-> None, ret |-> None, handle |-> NoHandle, ev |-> <<>>]
    /\ threads = <<>>

\* what a finished call leaves behind
Finish(op, model, path, env, o, ret, handle) ==
    /\ state' = o.w.st
    /\ files' = o.w.fs
    /\ calls' = calls + 1
    /\ probe_spawns' = probe_spawns + Count(o.w.ev, "probe_spawn")
    /\ load_calls' = o.w.lc
    /\ last' = [op |-> op, model |-> model, path |-> path, env |-> env,
                exc |-> o.exc, ret |-> ret, handle |-> handle, ev |-> o.w.ev]
    /\ UNCHANGED threads

Start == World(state, files, load_calls, calls + 1)

Synthesize ==
    /\ calls < MaxCalls
    /\ \E model \in ModelKinds, output_path \in OutputPaths, src \in SynthSourceEnvs,
          en \in EnableValues, mode \in BackendValues :
         LET env == [src EXCEPT !.ENABLE_MLX = en, !.KOKORO_BACKEND = mode]
         IN  \E o \in synthesize(Start, output_path, model, env) :
                 Finish("synthesize", model, output_path, env, o, o.val, NoHandle)

GetOrLoadModel ==
    /\ calls < MaxCalls
    /\ \E model_kind \in ModelKinds, src \in SourceEnvs, en \in EnableValues :
         LET env == [src EXCEPT !.ENABLE_MLX = en]
         IN  \E o \in get_or_load_model(Start, model_kind, env) :
                 Finish("get_or_load_model", model_kind, None, env, o, None, o.val)

GetMlxLoader ==
    /\ calls < MaxCalls
    /\ \E en \in EnableValues :
         LET env == [NoEnv EXCEPT !.ENABLE_MLX = en]
         IN  \E o \in get_mlx_loader(Start, env) :
                 Finish("get_mlx_loader", None, None, env, o, o.val, NoHandle)

MlxRuntimeAvailable ==
    /\ calls < MaxCalls
    /\ \E en \in EnableValues :
         LET env == [NoEnv EXCEPT !.ENABLE_MLX = en]
         IN  \E o \in mlx_runtime_available(Start, env) :
                 Finish("mlx_runtime_available", None, None, env, o,
                        IF o.val THEN "True" ELSE "False", NoHandle)

ProbeMlxRuntime ==
    /\ calls < MaxCalls
    /\ \E w \in probe_mlx_runtime(Start) :
         Finish("probe_mlx_runtime", None, None, NoEnv, Ret(w, None), None, NoHandle)

Health ==
    /\ calls < MaxCalls
    /\ \E src \in SourceEnvs, en \in EnableValues :
         LET env == [src EXCEPT !.ENABLE_MLX = en]
         IN  \E o \in health(Start, env) :
                 /\ state' = o.w.st
                 /\ files' = o.w.fs
                 /\ calls' = calls + 1
                 /\ probe_spawns' = probe_spawns + Count(o.w.ev, "probe_spawn")
                 /\ load_calls' = o.w.lc
                 /\ last' = [op |-> "health", model |-> None, path |-> None, env |-> env,
                             exc |-> o.exc, ret |-> o.val.model_status, handle |-> NoHandle,
                             ev |-> o.w.ev, loaded_models |-> o.val.loaded_models]
                 /\ UNCHANGED threads

SynthesizeKokoroNode ==
    /\ calls < MaxCalls
    /\ \E output_path \in OutputPaths, loc \in ScriptLocations, o \in ChildOutcomes :
         LET r == synthesize_kokoro_node_run(Start, output_path, loc, o)
         IN  /\ state' = r.w.st
             /\ files' = r.w.fs
             /\ calls' = calls + 1
             /\ load_calls' = r.w.lc
             /\ last' = [op |-> "synthesize_kokoro_node", model |-> "kokoro",
                         path |-> output_path, env |-> NoEnv, exc |-> r.exc,
                         ret |-> r.val, handle |-> NoHandle, ev |-> r.w.ev,
                         loc |-> loc, child |-> o,
                         script |-> resolve_kokoro_node_script_path(loc).val]
             /\ UNCHANGED <<probe_spawns, threads>>

Next ==
    \/ Synthesize
    \/ GetOrLoadModel
    \/ GetMlxLoader
    \/ MlxRuntimeAvailable
    \/ ProbeMlxRuntime
    \/ Health
    \/ SynthesizeKokoroNode

Spec == Init /\ [][Next]_vars

----------------------------------------------------------------------------
(* Claims *)

Engines == {"mlx-audio", "kokoro-node", "stub"}

Synthesized == last.op = "synthesize"
Returned == last.exc = None
LastEvent == IF last.ev = <<>> THEN None ELSE last.ev[Len(last.ev)]

\* the events of the last call that follow the first e
After(e) ==
    LET i == CHOOSE i \in 1..Len(last.ev) :
                 last.ev[i] = e /\ \A j \in 1..(i - 1) : last.ev[j] # e
    IN  SubSeq(last.ev, i + 1, Len(last.ev))

NodeAttempted(ev) == Has(ev, "node_launch") \/ Has(ev, "node_no_script")

\* C1: whatever the backends do, synthesize ends by returning a SynthResult
\* with one of the three engines; the only error that leaves it is the one
\* the stub generator raised on its write.
C1_SynthesizeAlwaysReturns ==
    Synthesized =>
        \/ Returned /\ last.ret \in Engines
        \/ last.exc = "OSError" /\ LastEvent = "stub_failed"

\* every backend failed and the stub's result is returned
C1_Witness ==
    /\ Synthesized /\ Returned /\ last.ret = "stub"
    /\ Has(last.ev, "mlx_failed")
    /\ Has(last.ev, "node_launch")

\* C2: the engine a returned result reports is the backend that wrote the
\* audio now stored at the output path, during this call.
C2_EngineProducedOutput ==
    (Synthesized /\ Returned) =>
        files[last.path] = [engine |-> last.ret, call |-> calls]

\* what the availability test of synthesize found, or would find
PrimaryUnavailable == Has(last.ev, "mlx_unavailable") \/ ~mlx_runtime_enabled(last.env)
PrimaryAvailable == Has(last.ev, "mlx_available")

SecondaryAfterPermitted ==
    /\ last.model = "kokoro"
    /\ kokoro_backend_mode(last.env) \in
           {"auto", "node", "node-first", "node-fallback", "python-node"}
SecondaryFirst ==
    /\ last.model = "kokoro"
    /\ kokoro_backend_mode(last.env) \in {"node", "node-first"}

\* C3: with the primary capability unavailable, synthesize touches neither
\* the model cache nor the renderer; it returns 'kokoro-node' iff a secondary
\* attempt is permitted for the model kind and succeeded, and otherwise
\* 'stub', the stub having written the output file.
C3_UnavailableNodeOrStub ==
    (Synthesized /\ PrimaryUnavailable) =>
        /\ ~Has(last.ev, "get_or_load_model") /\ ~Has(last.ev, "loader")
        /\ ~Has(last.ev, "render_ok") /\ ~Has(last.ev, "render_failed")
        /\ ~Has(last.ev, "write_ok") /\ ~Has(last.ev, "write_failed")
        /\ Returned =>
             /\ last.ret = "kokoro-node" <=>
                    (SecondaryAfterPermitted /\ Has(last.ev, "node_ok"))
             /\ last.ret # "kokoro-node" =>
                    /\ last.ret = "stub"
                    /\ LastEvent = "stub_ok"
                    /\ files[last.path] = [engine |-> "stub", call |-> calls]

\* the probe failed, the script is missing, the stub wrote the file
C3_Witness ==
    /\ Synthesized /\ Returned /\ last.ret = "stub"
    /\ Has(last.ev, "probe_spawn") /\ Has(last.ev, "mlx_unavailable")
    /\ Has(last.ev, "node_no_script")
    /\ files[last.path] = [engine |-> "stub", call |-> calls]

\* C4: in secondary-first mode the secondary backend is invoked before
\* anything else; if it succeeds its result is returned at once (no probe,
\* no load, no render, no stub), and if it fails the error is swallowed and
\* the availability of the primary is decided next.
C4_SecondaryFirst ==
    (Synthesized /\ SecondaryFirst) =>
        /\ Len(last.ev) >= 2
        /\ last.ev[1] = "node_first"
        /\ last.ev[2] \in {"node_launch", "node_no_script"}
        /\ IF Len(last.ev) >= 3 /\ last.ev[3] = "node_ok"
           THEN /\ Len(last.ev) = 3
                /\ Returned /\ last.ret = "kokoro-node"
           ELSE /\ Has(last.ev, "node_first_failed")
                /\ LET rest == After("node_first_failed")
                   IN  /\ rest # <<>>
                       /\ rest[1] \in {"probe_spawn", "mlx_available", "mlx_unavailable"}
                       /\ Has(rest, "mlx_available") \/ Has(rest, "mlx_unavailable")
                /\ last.exc \notin {"FileNotFoundError", "RuntimeError", "TimeoutExpired"}

\* the first attempt fails, the primary then renders the audio
C4_Witness ==
    /\ Synthesized /\ SecondaryFirst
    /\ Has(last.ev, "node_first_failed")
    /\ Returned /\ last.ret = "mlx-audio"

C4_WitnessImmediate ==
    /\ Synthesized /\ SecondaryFirst
    /\ last.ev = <<"node_first", "node_launch", "node_ok">>
    /\ ~state.mlx_probe_attempted

\* C5: with the primary available, 'mlx-audio' is returned iff the load,
\* the render and the write all succeeded, and nothing runs after the write;
\* after a failure the secondary is tried iff it is permitted, its success
\* is returned as 'kokoro-node', and otherwise the stub runs and 'stub' is
\* returned.
C5_PrimaryAvailable ==
    (Synthesized /\ PrimaryAvailable) =>
        LET ok == /\ Has(last.ev, "load_ok")
                  /\ Has(last.ev, "render_ok")
                  /\ Has(last.ev, "write_ok")
        IN  /\ Returned => (last.ret = "mlx-audio" <=> ok)
            /\ ok => /\ Returned
                     /\ LastEvent = "write_ok"
                     /\ ~NodeAttempted(After("mlx_available"))
                     /\ ~Has(last.ev, "stub_ok") /\ ~Has(last.ev, "stub_failed")
            /\ ~ok => /\ Has(last.ev, "mlx_failed")
                      /\ LET rest == After("mlx_failed")
                         IN  /\ NodeAttempted(rest) <=> SecondaryAfterPermitted
                             /\ Has(rest, "node_ok") =>
                                    Returned /\ last.ret = "kokoro-node"
                             /\ ~Has(rest, "node_ok") =>
                                    /\ LastEvent \in {"stub_ok", "stub_failed"}
                                    /\ Returned => last.ret = "stub"

\* the render fails and the secondary takes over
C5_Witness ==
    /\ Synthesized /\ PrimaryAvailable
    /\ Has(last.ev, "render_failed")
    /\ Returned /\ last.ret = "kokoro-node"

C5_WitnessPrimary ==
    /\ Synthesized /\ PrimaryAvailable
    /\ Returned /\ last.ret = "mlx-audio"
    /\ files[last.path] = [engine |-> "mlx-audio", call |-> calls]

Cached(k) == state.model_cache[k] # NoHandle

\* C6: once a load for a kind has succeeded, no later call invokes the loader
\* for that kind, the cached handle is neither replaced nor evicted, and
\* every later successful get_or_load_model for the kind returns that handle.
C6_LoadOnce ==
    [][\A k \in ModelKinds :
          Cached(k) =>
              /\ load_calls'[k] = load_calls[k]
              /\ state'.model_cache[k] = state.model_cache[k]
              /\ state'.model_source[k] = state.model_source[k]
              /\ (last'.op = "get_or_load_model" /\ last'.model = k /\ last'.exc = None) =>
                     last'.handle = state.model_cache[k]]_vars

\* a second get_or_load_model for a kind returns the handle of the one load
C6_Witness ==
    /\ last.op = "get_or_load_model" /\ Returned
    /\ Has(last.ev, "cache_hit")
    /\ last.handle = state.model_cache[last.model]
    /\ load_calls[last.model] = 1

ProbeFields(st) == <<st.mlx_probe_available, st.mlx_probe_error>>

\* C7: the probe child is spawned at most once in the life of the process,
\* and a call of probe_mlx_runtime after the first leaves RuntimeState as it
\* is.
C7_ProbeIdempotent ==
    [][/\ probe_spawns' <= 1
       /\ state.mlx_probe_attempted => probe_spawns' = probe_spawns
       /\ (state.mlx_probe_attempted /\ last'.op = "probe_mlx_runtime") =>
              state' = state]_vars

\* probe_mlx_runtime called again after a failed probe: nothing is spawned
C7_Witness ==
    /\ last.op = "probe_mlx_runtime" /\ last.ev = <<>>
    /\ calls = 2 /\ probe_spawns = 1
    /\ state.mlx_probe_attempted /\ ~state.mlx_probe_available

\* C8 as stated: once the probe has been attempted, mlx_probe_available and
\* mlx_probe_error never change again.
C8_ProbeResultImmutable ==
    [][state.mlx_probe_attempted => ProbeFields(state') = ProbeFields(state)]_vars

\* C8 amended: once the probe has been attempted it stays attempted, and
\* mlx_probe_available and mlx_probe_error change only when the import in
\* get_mlx_loader fails after a probe that reported available: then
\* available becomes false and the import error is recorded.  Available
\* never goes from false to true.
C8_ProbeResultChangesOnlyOnImportFailure ==
    [][state.mlx_probe_attempted =>
          /\ state'.mlx_probe_attempted
          /\ \/ ProbeFields(state') = ProbeFields(state)
             \/ /\ last'.op \in {"get_mlx_loader", "get_or_load_model", "synthesize"}
                /\ Has(last'.ev, "import_failed")
                /\ state.mlx_probe_available /\ state.mlx_probe_error = None
                /\ state.mlx_load_model = None
                /\ ProbeFields(state') = <<FALSE, "ImportError">>]_vars

\* an earlier call's probe reported available, this call's import failed
C8_Witness ==
    /\ Has(last.ev, "import_failed") /\ ~Has(last.ev, "probe_spawn")
    /\ state.mlx_probe_attempted
    /\ ProbeFields(state) = <<FALSE, "ImportError">>

ProberOps == {"mlx_runtime_available", "get_mlx_loader", "get_or_load_model",
              "health", "synthesize"}

\* C9: with the enable flag off, mlx_runtime_available returns false and
\* (called directly or from another operation) spawns no probe and leaves
\* the probe fields and the loader reference as they are.
C9_DisabledNoProbe ==
    [][(last'.op \in ProberOps /\ calls' = calls + 1 /\ ~mlx_runtime_enabled(last'.env)) =>
          /\ last'.op = "mlx_runtime_available" => last'.ret = "False"
          /\ probe_spawns' = probe_spawns
          /\ ~Has(last'.ev, "probe_spawn")
          /\ state'.mlx_probe_attempted = state.mlx_probe_attempted
          /\ ProbeFields(state') = ProbeFields(state)
          /\ state'.mlx_load_model = state.mlx_load_model]_vars

\* the flag is off after a probe that reported available
C9_Witness ==
    /\ last.op = "mlx_runtime_available" /\ ~mlx_runtime_enabled(last.env)
    /\ last.ret = "False"
    /\ state.mlx_probe_attempted /\ state.mlx_probe_available

\* what the capability prober reports to the last call
ProberUnavailable == ~mlx_runtime_enabled(last.env) \/ ~state.mlx_probe_available

\* the source the resolution order gives, None if there is none
ExpectedSource ==
    IF last.env.MODEL \notin {Unset, ""}
    THEN last.env.MODEL
    ELSE IF last.env.MODELS_DIR = "/models" /\ last.env.local_dir_exists
    THEN IF last.model = "kokoro" THEN "/models/kokoro" ELSE "/models/chatterbox"
    ELSE None

\* C10 as stated: get_or_load_model raises RuntimeError, without invoking
\* the loader, whenever the prober reports unavailable and whenever no
\* source resolves for the kind.
C10_FailsWhenUnavailableOrUnresolved ==
    (last.op = "get_or_load_model" /\ (ProberUnavailable \/ ExpectedSource = None)) =>
        last.exc = "RuntimeError" /\ ~Has(last.ev, "loader")

\* C10 amended: get_or_load_model raises RuntimeError without invoking the
\* loader whenever the prober reports unavailable (cached or not) and, when
\* the kind is not cached, whenever no source resolves; a cached kind is
\* returned without resolving any source.  A load uses the override if it
\* is set and otherwise the <models-dir>/<kind> directory if it exists.
C10_FailsWhenUnavailableOrMissUnresolved ==
    last.op = "get_or_load_model" =>
        /\ ProberUnavailable =>
               last.exc = "RuntimeError" /\ ~Has(last.ev, "loader")
        /\ (~Has(last.ev, "cache_hit") /\ ExpectedSource = None) =>
               last.exc = "RuntimeError" /\ ~Has(last.ev, "loader")
        /\ Has(last.ev, "cache_hit") =>
               Returned /\ ~Has(last.ev, "loader") /\ ~ProberUnavailable
        /\ (Has(last.ev, "loader") /\ Returned) =>
               state.model_source[last.model] = ExpectedSource

\* the flag is off and the call fails although the kind is cached
C10_Witness ==
    /\ last.op = "get_or_load_model" /\ last.exc = "RuntimeError"
    /\ ~mlx_runtime_enabled(last.env)
    /\ Cached(last.model)

C10_WitnessUnresolved ==
    /\ last.op = "get_or_load_model" /\ last.exc = "RuntimeError"
    /\ Has(last.ev, "source_unresolved")
    /\ last.env.MODELS_DIR = "/models" /\ ~last.env.local_dir_exists

----------------------------------------------------------------------------
(* The secondary backend invoker called on its own *)

NodeCalled == last.op = "synthesize_kokoro_node"
ExitZero == {"exit0_wrote", "exit0_no_file"}

\* C11 as stated: synthesize_kokoro_node returns 'kokoro-node' only when the
\* script was located, the child exited zero and the output file exists; it
\* fails with a RuntimeError when the script cannot be located (the override
\* path looked at first, then the sibling location), when the child exits
\* non-zero, and when it exits zero with the output file absent; with no script
\* no child is launched.
C11_InvokerFailsWithRuntimeError ==
    NodeCalled =>
        LET located == (last.loc.override # Unset /\ last.loc.override_exists)
                           \/ last.loc.sibling_exists
        IN  /\ last.exc = None =>
                   /\ last.ret = "kokoro-node"
                   /\ located
                   /\ last.child \in ExitZero
                   /\ files[last.path] # NoFile
            /\ ~located => last.exc = "RuntimeError" /\ ~Has(last.ev, "node_launch")
            /\ located /\ Has(last.ev, "node_launch") /\ last.child = "exit1"
                   => last.exc = "RuntimeError"
            /\ located /\ Has(last.ev, "node_launch") /\ last.child \in ExitZero
                       /\ files[last.path] = NoFile
                   => last.exc = "RuntimeError"

\* C11, amended: synthesize_kokoro_node looks at the override path alone when
\* LOCAL_PODCAST_KOKORO_NODE_SCRIPT is set and at the sibling location
\* otherwise.  It returns 'kokoro-node' only when that file exists, the child
\* exited zero and the output file exists.  With no script it raises
\* FileNotFoundError and launches no child; it raises RuntimeError when the
\* child exits non-zero and when it exits zero with the output file absent.
C11_InvokerOutcomes ==
    NodeCalled =>
        LET located == IF last.loc.override # Unset
                       THEN last.loc.override_exists
                       ELSE last.loc.sibling_exists
        IN  /\ last.exc = None =>
                   /\ last.ret = "kokoro-node"
                   /\ located
                   /\ last.child \in ExitZero
                   /\ files[last.path] # NoFile
            /\ located => /\ Count(last.ev, "node_launch") = 1
                          /\ last.script = IF last.loc.override # Unset
                                           THEN last.loc.override
                                           ELSE "services/kokoro-node/cli.mjs"
            /\ ~located => /\ last.exc = "FileNotFoundError"
                           /\ ~Has(last.ev, "node_launch")
            /\ located /\ last.child = "exit1" => last.exc = "RuntimeError"
            /\ located /\ last.child \in ExitZero /\ files[last.path] = NoFile
                   => last.exc = "RuntimeError"

\* the override names a missing file while the sibling script is there
C11_Witness ==
    /\ NodeCalled
    /\ last.loc.override # Unset
    /\ ~last.loc.override_exists
    /\ last.loc.sibling_exists
    /\ last.exc = "FileNotFoundError"

\* the child exited zero and left no file
C11_WitnessNoFile ==
    /\ NodeCalled
    /\ last.child = "exit0_no_file"
    /\ files[last.path] = NoFile
    /\ last.exc = "RuntimeError"

----------------------------------------------------------------------------
(* How often one synthesize goes to each backend *)

NodeAttempts == Count(last.ev, "node_launch") + Count(last.ev, "node_no_script")
PrimaryAttempts == Count(last.ev, "get_or_load_model")
StubAttempts == Count(last.ev, "stub_ok") + Count(last.ev, "stub_failed")

\* C20 as stated: within one synthesize call each backend is attempted at most
\* once; the secondary child process is launched at most once per request, for
\* every mode and every combination of outcomes.
C20_EachBackendAtMostOnce ==
    Synthesized =>
        /\ NodeAttempts <= 1
        /\ Count(last.ev, "node_launch") <= 1
        /\ PrimaryAttempts <= 1
        /\ StubAttempts <= 1

\* C20, amended: within one synthesize call the primary backend and the stub
\* are attempted at most once each.  The secondary is attempted at most once
\* unless the mode is node or node-first for kokoro: there a failed first
\* attempt is followed by a second one once the primary is unavailable or has
\* failed, so the child is launched at most twice.  A non-kokoro request never
\* reaches the secondary.
C20_BackendAttemptBounds ==
    Synthesized =>
        /\ PrimaryAttempts <= 1
        /\ StubAttempts <= 1
        /\ NodeAttempts <= 2
        /\ ~SecondaryFirst => NodeAttempts <= 1
        /\ last.model # "kokoro" => NodeAttempts = 0
        /\ NodeAttempts = 2 =>
               /\ SecondaryFirst
               /\ Has(last.ev, "node_first_failed")
               /\ Has(last.ev, "mlx_unavailable") \/ Has(last.ev, "mlx_failed")
                      \/ ~mlx_runtime_enabled(last.env)

\* the child ran twice in one request
C20_Witness ==
    /\ Synthesized
    /\ Count(last.ev, "node_launch") = 2

----------------------------------------------------------------------------
(* Text: a string is a sequence of characters; a word that is never split,
   such as a voice name or the .safetensors suffix, is one character of it *)

Whitespace == {" ", "\n"}

Strings(chars, n) == UNION { [1..k -> chars] : k \in 0..n }

RECURSIVE lstrip(_)
lstrip(s) == IF s # <<>> /\ Head(s) \in Whitespace THEN lstrip(Tail(s)) ELSE s

RECURSIVE rstrip(_)
rstrip(s) ==
    IF s # <<>> /\ s[Len(s)] \in Whitespace THEN rstrip(SubSeq(s, 1, Len(s) - 1)) ELSE s

\* str.strip()
strip(s) == rstrip(lstrip(s))

\* the state of a process in which no request has been served
Idle ==
    /\ state = RuntimeState
    /\ files = [p \in OutputPaths |-> NoFile]
    /\ calls = 0
    /\ probe_spawns = 0
    /\ load_calls = [k \in ModelKinds |-> 0]
    /\ threads = <<>>

\* a pure function has been applied to the arguments drawn at the start
Applied(op, ret) ==
    /\ last' = [last EXCEPT !.op = op, !.ret = ret]
    /\ UNCHANGED <<state, files, calls, probe_spawns, load_calls, threads>>

----------------------------------------------------------------------------
(* Voice resolution *)

MaxVoiceLen == 3

VOICE_MAP ==
    [kokoro_narrator |-> <<"af_heart">>, kokoro_story |-> <<"af_bella">>,
     chatterbox_expressive |-> <<"expressive">>, chatterbox_studio |-> <<"neutral">>]

\* VOICE_MAP.get(voice_id, voice_id)
voice_map_get(voice_id) ==
    IF Len(voice_id) = 1 /\ voice_id[1] \in DOMAIN VOICE_MAP
    THEN VOICE_MAP[voice_id[1]]
    ELSE voice_id

VoiceIds ==
    Strings({" ", "a", "/", ".safetensors"}, MaxVoiceLen)
        \cup { <<k>> : k \in DOMAIN VOICE_MAP }

\* LOCAL_PODCAST_MODELS_DIR (empty when not set), and which files exist
VoiceFiles ==
    [models_dir : {<<>>, <<" ">>, <<"/models">>}, voice_path_exists : BOOLEAN,
     candidate_exists : BOOLEAN]

endswith_safetensors(s) == s # <<>> /\ s[Len(s)] = ".safetensors"

\* the last component of a path
RECURSIVE path_name(_)
path_name(s) ==
    IF \E i \in 1..Len(s) : s[i] = "/"
    THEN path_name(Tail(s))
    ELSE s

\* Path(s).stem of a string that ends with .safetensors: a name that is the
\* suffix alone is a dot file and keeps it
path_stem(s) ==
    LET name == path_name(s)
    IN  IF Len(name) <= 1 THEN name ELSE SubSeq(name, 1, Len(name) - 1)

\* str(Path(s)): repeated separators are one
RECURSIVE path_str(_)
path_str(s) ==
    IF Len(s) <= 1 THEN s
    ELSE IF s[1] = "/" /\ s[2] = "/" THEN path_str(Tail(s))
    ELSE <<s[1]>> \o path_str(Tail(s))

\* str(voices_dir / f"{mapped}.safetensors"): an absolute right side stands alone
voice_candidate(models_dir, mapped) ==
    IF mapped[1] = "/"
    THEN path_str(mapped \o <<".safetensors">>)
    ELSE path_str(models_dir \o <<"/", "kokoro", "/", "voices", "/">>
                      \o mapped \o <<".safetensors">>)

\* resolve_voice_id with no fallback for an empty name
resolve_voice_id_no_fallback(voice_id, model_kind, fsv) ==
    LET mapped == strip(voice_map_get(voice_id))
    IN  IF model_kind # "kokoro"
        THEN mapped
        ELSE LET literal == endswith_safetensors(mapped)
                 name == IF literal THEN path_stem(mapped) ELSE mapped
                 models_dir_value == strip(fsv.models_dir)
             IN  IF literal /\ fsv.voice_path_exists
                 THEN path_str(mapped)
                 ELSE IF models_dir_value # <<>> /\ name # <<>> /\ fsv.candidate_exists
                 THEN voice_candidate(models_dir_value, name)
                 ELSE name

resolve_voice_id(voice_id, model_kind, fsv) ==
    LET mapped == strip(voice_map_get(voice_id))
    IN  IF model_kind # "kokoro"
        THEN IF mapped # <<>> THEN mapped ELSE <<"neutral">>
        ELSE LET literal == endswith_safetensors(mapped)
                 name == IF literal THEN path_stem(mapped) ELSE mapped
                 models_dir_value == strip(fsv.models_dir)
             IN  IF literal /\ fsv.voice_path_exists
                 THEN path_str(mapped)
                 ELSE IF models_dir_value # <<>> /\ name # <<>> /\ fsv.candidate_exists
                 THEN voice_candidate(models_dir_value, name)
                 ELSE IF name # <<>> THEN name ELSE <<"af_heart">>

resolve_kokoro_node_voice(voice_id) ==
    LET mapped == strip(voice_map_get(voice_id))
        name == IF endswith_safetensors(mapped) THEN path_stem(mapped) ELSE mapped
    IN  IF name # <<>> THEN name ELSE <<"af_heart">>

InitVoice ==
    /\ Idle
    /\ last \in [op : {"init"}, voice_id : VoiceIds, model_kind : ModelKinds,
                 fsv : VoiceFiles, ret : {<<>>}]

ResolveVoiceId ==
    /\ last.op = "init"
    /\ Applied("resolve_voice_id", resolve_voice_id(last.voice_id, last.model_kind, last.fsv))

ResolveKokoroNodeVoice ==
    /\ last.op = "init"
    /\ Applied("resolve_kokoro_node_voice", resolve_kokoro_node_voice(last.voice_id))

NextVoice == ResolveVoiceId \/ ResolveKokoroNodeVoice

SpecVoice == InitVoice /\ [][NextVoice]_vars

VoiceResolved == last.op \in {"resolve_voice_id", "resolve_kokoro_node_voice"}
BlankVoice == \A i \in 1..Len(last.voice_id) : last.voice_id[i] = " "
NoVoiceFile ==
    \/ last.op = "resolve_kokoro_node_voice"
    \/ last.model_kind # "kokoro"
    \/ ~last.fsv.candidate_exists
    \/ \A i \in 1..Len(last.fsv.models_dir) : last.fsv.models_dir[i] = " "

\* C12: for every voice id, the empty, the blank, the unmapped and the
\* .safetensors-suffixed ones included, and every model kind, resolve_voice_id
\* and resolve_kokoro_node_voice return a non-empty string; a blank id gives
\* 'neutral' for a kind other than kokoro and 'af_heart' for kokoro; a mapped
\* id with no local voice file gives its mapped token, kokoro_narrator af_heart.
C12_VoiceNeverEmpty ==
    VoiceResolved =>
        /\ last.ret # <<>>
        /\ BlankVoice =>
               last.ret = IF last.op = "resolve_voice_id" /\ last.model_kind # "kokoro"
                          THEN <<"neutral">>
                          ELSE <<"af_heart">>
        /\ NoVoiceFile =>
               /\ last.voice_id = <<"kokoro_narrator">> => last.ret = <<"af_heart">>
               /\ last.voice_id = <<"kokoro_story">> => last.ret = <<"af_bella">>
               /\ last.voice_id = <<"chatterbox_expressive">> => last.ret = <<"expressive">>
               /\ last.voice_id = <<"chatterbox_studio">> => last.ret = <<"neutral">>

\* a blank id resolved for chatterbox
C12_Witness ==
    /\ last.op = "resolve_voice_id"
    /\ last.voice_id = <<" ", " ">>
    /\ last.model_kind = "chatterbox"
    /\ last.ret = <<"neutral">>

\* the bare suffix resolved for kokoro keeps its name
C12_WitnessSuffix ==
    /\ last.op = "resolve_voice_id"
    /\ last.voice_id = <<".safetensors">>
    /\ last.model_kind = "kokoro"
    /\ ~last.fsv.voice_path_exists
    /\ last.ret # <<>>

----------------------------------------------------------------------------
(* Speech normalisation *)

MaxTextLen == 4

\* the length of the whitespace run s starts with
RECURSIVE ws_run(_)
ws_run(s) == IF s # <<>> /\ Head(s) \in Whitespace THEN 1 + ws_run(Tail(s)) ELSE 0

\* re.sub(r"\s+", " ", s)
RECURSIVE sub_ws_space(_)
sub_ws_space(s) ==
    IF s = <<>> THEN <<>>
    ELSE IF Head(s) \in Whitespace
    THEN <<" ">> \o sub_ws_space(SubSeq(s, ws_run(s) + 1, Len(s)))
    ELSE <<Head(s)>> \o sub_ws_space(Tail(s))

\* re.sub(r"\s+c", "c", s) for a character c that is not whitespace
RECURSIVE sub_ws_before(_, _)
sub_ws_before(s, c) ==
    IF s = <<>> THEN <<>>
    ELSE LET n == ws_run(s)
         IN  IF n = 0
             THEN <<Head(s)>> \o sub_ws_before(Tail(s), c)
             ELSE IF n < Len(s) /\ s[n + 1] = c
             THEN <<c>> \o sub_ws_before(SubSeq(s, n + 2, Len(s)), c)
             ELSE SubSeq(s, 1, n) \o sub_ws_before(SubSeq(s, n + 1, Len(s)), c)

\* normalize_for_speech that does not strip
normalize_for_speech_no_strip(text) ==
    sub_ws_before(sub_ws_before(sub_ws_space(text), ","), ".")

normalize_for_speech(text) ==
    sub_ws_before(sub_ws_before(strip(sub_ws_space(text)), ","), ".")

SpeechTexts == Strings({" ", "\n", ",", ".", "a"}, MaxTextLen)

InitNormalize ==
    /\ Idle
    /\ last \in [op : {"init"}, text : SpeechTexts, ret : {<<>>}]

NormalizeForSpeech ==
    /\ last.op = "init"
    /\ Applied("normalize_for_speech", normalize_for_speech(last.text))

\* the result is normalised once more
NormalizeAgain ==
    /\ last.op = "normalize_for_speech"
    /\ last' = [op |-> "normalize_for_speech_again", text |-> last.ret,
                ret |-> normalize_for_speech(last.ret)]
    /\ UNCHANGED <<state, files, calls, probe_spawns, load_calls, threads>>

NextNormalize == NormalizeForSpeech \/ NormalizeAgain

SpecNormalize == InitNormalize /\ [][NextNormalize]_vars

Normalized == last.op \in {"normalize_for_speech", "normalize_for_speech_again"}

\* C13: normalize_for_speech is idempotent over texts of whitespace, commas,
\* periods and ordinary characters, and its result has no whitespace at either
\* end, no two whitespace characters in a row and no whitespace right before a
\* comma or a period.
C13_NormalizeIdempotent ==
    Normalized =>
        LET r == last.ret
        IN  /\ last.op = "normalize_for_speech_again" => r = last.text
            /\ r # <<>> => r[1] \notin Whitespace /\ r[Len(r)] \notin Whitespace
            /\ \A i \in 1..(Len(r) - 1) :
                   r[i] \in Whitespace => r[i + 1] \notin Whitespace \cup {",", "."}

\* a text with whitespace runs at the start, inside and before a comma
C13_Witness ==
    /\ last.op = "normalize_for_speech_again"
    /\ last.text = <<"a", ",", " ", "a">>
    /\ last.ret = last.text

C13_WitnessFirst ==
    /\ last.op = "normalize_for_speech"
    /\ last.text = <<" ", "a", "\n", ",">>
    /\ last.ret = <<"a", ",">>

----------------------------------------------------------------------------
(* Expression tags put in front of a text *)

MaxTags == 2

\* str.lower() on the letters the texts are made of
lower_char(ch) ==
    CASE ch = "A" -> "a"
      [] ch = "LAUGHS" -> "laughs"
      [] OTHER -> ch

lower(s) == [i \in 1..Len(s) |-> lower_char(s[i])]

\* [f(tag) for tag in tags if tag.strip()]
RECURSIVE normalized_tags(_)
normalized_tags(tags) ==
    IF tags = <<>> THEN <<>>
    ELSE IF strip(Head(tags)) # <<>>
    THEN <<lower(strip(Head(tags)))>> \o normalized_tags(Tail(tags))
    ELSE normalized_tags(Tail(tags))

\* " ".join(f"[{tag}]" for tag in tags)
RECURSIVE tag_prefix(_)
tag_prefix(tags) ==
    IF tags = <<>> THEN <<>>
    ELSE IF Len(tags) = 1 THEN <<"[">> \o tags[1] \o <<"]">>
    ELSE <<"[">> \o tags[1] \o <<"]", " ">> \o tag_prefix(Tail(tags))

\* apply_expression_tags that does not look at how the text starts
apply_expression_tags_always(text, expression_tags) ==
    IF expression_tags = <<>> THEN text
    ELSE IF normalized_tags(expression_tags) = <<>> THEN text
    ELSE tag_prefix(normalized_tags(expression_tags)) \o <<" ">> \o text

apply_expression_tags(text, expression_tags) ==
    IF expression_tags = <<>> THEN text
    ELSE IF normalized_tags(expression_tags) = <<>> THEN text
    ELSE IF text # <<>> /\ text[1] = "[" THEN text
    ELSE tag_prefix(normalized_tags(expression_tags)) \o <<" ">> \o text

ExpressionTags == {<<>>, <<" ">>, <<"a">>, <<" ", "A", " ">>, <<"A", "b">>}
TaggedTexts == Strings({"[", "x", " "}, MaxTextLen)

InitTags ==
    /\ Idle
    /\ last \in [op : {"init"}, text : TaggedTexts,
                 tags : Strings(ExpressionTags, MaxTags), ret : {<<>>}]

ApplyExpressionTags ==
    /\ last.op = "init"
    /\ Applied("apply_expression_tags", apply_expression_tags(last.text, last.tags))

\* the same tags are applied to the result
ApplyExpressionTagsAgain ==
    /\ last.op = "apply_expression_tags"
    /\ last' = [op |-> "apply_expression_tags_again", text |-> last.ret,
                tags |-> last.tags, ret |-> apply_expression_tags(last.ret, last.tags)]
    /\ UNCHANGED <<state, files, calls, probe_spawns, load_calls, threads>>

NextTags == ApplyExpressionTags \/ ApplyExpressionTagsAgain

SpecTags == InitTags /\ [][NextTags]_vars

TagsApplied == last.op \in {"apply_expression_tags", "apply_expression_tags_again"}
StartsWithBracket == last.text # <<>> /\ last.text[1] = "["

\* a tag as it is rendered: trimmed and lowercased
Trimmed(tag) ==
    LET keep == {i \in 1..Len(tag) : tag[i] # " "}
    IN  IF keep = {} THEN <<>>
        ELSE LET lo == CHOOSE i \in keep : \A j \in keep : i <= j
                 hi == CHOOSE i \in keep : \A j \in keep : j <= i
             IN  [i \in 1..(hi - lo + 1) |->
                     lower_char(tag[lo + i - 1])]

RECURSIVE Rendering(_)
Rendering(tags) ==
    IF tags = <<>> THEN <<>>
    ELSE <<"[">> \o Head(tags) \o <<"]", " ">> \o Rendering(Tail(tags))

\* C14 as stated: for every non-empty tag list and every text not starting
\* with '[', the output is the bracketed rendering of the lowercased, trimmed
\* tags in their order followed by the text; a text starting with '[' and an
\* empty tag list give the text back, so applying twice never prefixes twice.
C14_EveryTagRendered ==
    TagsApplied =>
        /\ last.tags # <<>> /\ ~StartsWithBracket =>
               last.ret = Rendering([i \in 1..Len(last.tags) |-> Trimmed(last.tags[i])])
                              \o last.text
        /\ last.tags = <<>> \/ StartsWithBracket => last.ret = last.text
        /\ last.op = "apply_expression_tags_again" => last.ret = last.text

\* the tags that are left when the blank ones are dropped
RECURSIVE NonBlank(_)
NonBlank(tags) ==
    IF tags = <<>> THEN <<>>
    ELSE IF Trimmed(Head(tags)) = <<>> THEN NonBlank(Tail(tags))
    ELSE <<Trimmed(Head(tags))>> \o NonBlank(Tail(tags))

\* C14, amended: tags that are blank after trimming are dropped.  When a tag
\* is left and the text does not start with '[', the output is the bracketed
\* rendering of the remaining tags, trimmed and lowercased, in their order,
\* followed by the text; when no tag is left or the text starts with '[' the
\* text is returned unchanged, so applying twice never prefixes twice.
C14_NonBlankTagsRendered ==
    TagsApplied =>
        /\ NonBlank(last.tags) # <<>> /\ ~StartsWithBracket =>
               last.ret = Rendering(NonBlank(last.tags)) \o last.text
        /\ NonBlank(last.tags) = <<>> \/ StartsWithBracket => last.ret = last.text
        /\ last.op = "apply_expression_tags_again" => last.ret = last.text

\* a blank tag and a tag to trim and lowercase, put before a plain text
C14_Witness ==
    /\ last.op = "apply_expression_tags"
    /\ last.tags = << <<" ">>, <<" ", "A", " ">> >>
    /\ last.text = <<"x">>
    /\ last.ret = <<"[", "a", "]", " ", "x">>

\* the second application found the prefix of the first
C14_WitnessTwice ==
    /\ last.op = "apply_expression_tags_again"
    /\ last.tags = << <<"a">> >>
    /\ last.ret = <<"[", "a", "]", " ", "x">>

----------------------------------------------------------------------------
(* Tags found in a text *)

MaxTagTextLen == 6

SUPPORTED_TAGS ==
    << <<"laughs">>, <<"sighs">>, <<"chuckles">>, <<"breathes">>, <<"whispers">> >>

\* the length of the run of characters other than ']' that s starts with
RECURSIVE not_closing_run(_)
not_closing_run(s) ==
    IF s # <<>> /\ Head(s) # "]" THEN 1 + not_closing_run(Tail(s)) ELSE 0

\* extract_tags that takes each match as it is written
RECURSIVE extract_tags_raw(_)
extract_tags_raw(text) ==
    IF text = <<>> THEN <<>>
    ELSE LET n == not_closing_run(Tail(text))
         IN  IF Head(text) = "[" /\ n >= 1 /\ n + 2 <= Len(text)
             THEN <<SubSeq(text, 2, n + 1)>>
                      \o extract_tags_raw(SubSeq(text, n + 3, Len(text)))
             ELSE extract_tags_raw(Tail(text))

\* re.finditer(r"\[([^\]]+)\]", text): the scan goes on after each match
RECURSIVE extract_tags(_)
extract_tags(text) ==
    IF text = <<>> THEN <<>>
    ELSE LET n == not_closing_run(Tail(text))
         IN  IF Head(text) = "[" /\ n >= 1 /\ n + 2 <= Len(text)
             THEN <<lower(strip(SubSeq(text, 2, n + 1)))>>
                      \o extract_tags(SubSeq(text, n + 3, Len(text)))
             ELSE extract_tags(Tail(text))

in_supported_tags(tag) == \E i \in 1..Len(SUPPORTED_TAGS) : SUPPORTED_TAGS[i] = tag

\* validate_tags that reports the supported tags it found
validate_tags_supported(text) ==
    LET NotInvalid(tag) == in_supported_tags(tag)
        invalid_tags == SelectSeq(extract_tags(text), NotInvalid)
    IN  [isValid |-> Len(invalid_tags) = 0, invalidTags |-> invalid_tags,
         supportedTags |-> SUPPORTED_TAGS]

validate_tags(text) ==
    LET Invalid(tag) == ~in_supported_tags(tag)
        invalid_tags == SelectSeq(extract_tags(text), Invalid)
    IN  [isValid |-> Len(invalid_tags) = 0, invalidTags |-> invalid_tags,
         supportedTags |-> SUPPORTED_TAGS]

BracketTexts == Strings({"[", "]", " ", "LAUGHS", "shouts"}, MaxTagTextLen)

InitExtract ==
    /\ Idle
    /\ last \in [op : {"init"}, text : BracketTexts, ret : {<<>>}]

ExtractTags ==
    /\ last.op = "init"
    /\ Applied("extract_tags", extract_tags(last.text))

ValidateTags ==
    /\ last.op = "init"
    /\ Applied("validate_tags", validate_tags(last.text))

NextExtract == ExtractTags \/ ValidateTags

SpecExtract == InitExtract /\ [][NextExtract]_vars

\* where the bracket-delimited substrings of t end: at a ']' such that a '['
\* follows the ']' before it, with at least one character in between
Closers(t) == {j \in 1..Len(t) : t[j] = "]"}
Opener(t, j) ==
    LET before == {k \in Closers(t) : k < j}
        opens == {i \in 1..(j - 1) : t[i] = "[" /\ \A k \in before : k < i}
    IN  IF opens = {} THEN 0 ELSE CHOOSE i \in opens : \A k \in opens : i <= k
TagEnds(t) == {j \in Closers(t) : Opener(t, j) # 0 /\ Opener(t, j) + 2 <= j}

\* the bracket-delimited substrings of t that end in the set ends, in order
RECURSIVE Bracketed(_, _)
Bracketed(t, ends) ==
    IF ends = {} THEN <<>>
    ELSE LET j == CHOOSE e \in ends : \A k \in ends : e <= k
         IN  <<Trimmed(SubSeq(t, Opener(t, j) + 1, j - 1))>>
                 \o Bracketed(t, ends \ {j})

Supported == {<<"laughs">>, <<"sighs">>, <<"chuckles">>, <<"breathes">>, <<"whispers">>}
Unsupported(t) == LET Out(tag) == tag \notin Supported
                  IN  SelectSeq(Bracketed(t, TagEnds(t)), Out)

\* C16: extract_tags returns every bracket-delimited substring of the text,
\* lowercased and trimmed, in order of appearance, duplicates kept;
\* validate_tags reports as invalidTags the extracted tags that are not in the
\* supported set, in order, and isValid is true iff there is none.
C16_TagsExtractedInOrder ==
    /\ last.op = "extract_tags" => last.ret = Bracketed(last.text, TagEnds(last.text))
    /\ last.op = "validate_tags" =>
           /\ last.ret.invalidTags = Unsupported(last.text)
           /\ last.ret.isValid <=> Unsupported(last.text) = <<>>

\* [shouts] is not a supported tag
C16_Witness ==
    /\ last.op = "validate_tags"
    /\ last.text = <<"[", "shouts", "]">>
    /\ ~last.ret.isValid
    /\ last.ret.invalidTags = << <<"shouts">> >>

\* the same tag twice, in upper case the second time
C16_WitnessDuplicate ==
    /\ last.op = "extract_tags"
    /\ last.text = <<"[", "LAUGHS", "]", "[", "LAUGHS", "]">>
    /\ last.ret = << <<"laughs">>, <<"laughs">> >>

----------------------------------------------------------------------------
(* The stub generator: its arithmetic is exact, on fractions.  The speed is a
   number of tenths, a duration is the fraction num/den of a second. *)

MaxWords == 40
MaxSpeedTenths == 12

sample_rate == 24000
amplitude == 9000

\* max(2.8 * speed, 0.5), in hundredths
stub_divisor(speed_tenths) == IF 28 * speed_tenths >= 50 THEN 28 * speed_tenths ELSE 50

\* len(text.split()) / max(2.8 * speed, 0.5)
stub_raw_duration(word_count, speed_tenths) ==
    [num |-> 100 * word_count, den |-> stub_divisor(speed_tenths)]

\* int(max(0.35, min(12.0, raw)) * sample_rate)
clamped_samples(raw) ==
    IF raw.num >= 12 * raw.den THEN 12 * sample_rate
    ELSE IF 100 * raw.num <= 35 * raw.den THEN (35 * sample_rate) \div 100
    ELSE (raw.num * sample_rate) \div raw.den

\* the stub's sample count with the divisor 2.8 * speed
stub_total_samples_no_floor(word_count, speed_tenths) ==
    clamped_samples([num |-> 100 * word_count, den |-> 28 * speed_tenths])

stub_total_samples(word_count, speed_tenths) ==
    clamped_samples(stub_raw_duration(word_count, speed_tenths))

\* math.sin(...) of some sample, in thousandths
Sines == {-1000, -707, -1, 0, 500, 1000}

\* int(9000 * sine): int() cuts towards zero
stub_sample(sine) ==
    IF sine >= 0
    THEN (amplitude * sine) \div 1000
    ELSE 0 - ((amplitude * (0 - sine)) \div 1000)

InitStub ==
    /\ Idle
    /\ last \in [op : {"init"}, model : ModelKinds, path : OutputPaths,
                 word_count : 0..MaxWords, speed_tenths : 1..MaxSpeedTenths,
                 sine : {0}, raw : {[num |-> 0, den |-> 1]}, total_samples : {0},
                 sample : {0}, exc : {None}, ret : {None}]

\* one call of synthesize_stub; sine is the sine of one of the samples it writes
SynthesizeStub ==
    /\ last.op = "init"
    /\ \E o \in synthesize_stub(Start, last.path), sine \in Sines :
         /\ files' = o.w.fs
         /\ calls' = calls + 1
         /\ last' = [last EXCEPT
                       !.op = "synthesize_stub",
                       !.sine = sine,
                       !.raw = stub_raw_duration(last.word_count, last.speed_tenths),
                       !.total_samples = stub_total_samples(last.word_count, last.speed_tenths),
                       !.sample = stub_sample(sine),
                       !.exc = o.exc,
                       !.ret = o.val]
    /\ UNCHANGED <<state, probe_spawns, load_calls, threads>>

NextStub == SynthesizeStub

SpecStub == InitStub /\ [][NextStub]_vars

StubCalled == last.op = "synthesize_stub"

\* floor(24000 * clamp(num/den, 0.35, 12.0))
ClampedSamples(num, den) ==
    IF num >= 12 * den THEN 288000
    ELSE IF 100 * num <= 35 * den THEN 8400
    ELSE (24000 * num) \div den

\* C15 as stated: for every word count and every positive speed the stub
\* writes int(d * 24000) samples with d = clamp(word_count / (2.8 * speed),
\* 0.35, 12.0), the duration lies in [0.35, 12.0] seconds, doubling the speed
\* halves the raw duration, every sample is at most 9000 in magnitude and the
\* engine reported is 'stub'.
C15_StubDurationForEverySpeed ==
    StubCalled =>
        LET twice == stub_raw_duration(last.word_count, 2 * last.speed_tenths)
        IN  /\ last.total_samples = ClampedSamples(100 * last.word_count, 28 * last.speed_tenths)
            /\ last.total_samples >= 8400 /\ last.total_samples <= 288000
            /\ 2 * twice.num * last.raw.den = last.raw.num * twice.den
            /\ last.sample >= -9000 /\ last.sample <= 9000
            /\ last.exc = None => last.ret = "stub"

\* C15, amended: the stub divides the word count by max(2.8 * speed, 0.5): it
\* writes int(d * 24000) samples with d = clamp(word_count / max(2.8 * speed,
\* 0.5), 0.35, 12.0), which is the stated duration for every speed of at least
\* 0.5 / 2.8; the duration lies in [0.35, 12.0] seconds; doubling a speed of
\* at least 0.5 / 2.8 halves the raw duration; every sample is at most 9000 in
\* magnitude and the engine reported is 'stub'.
C15_StubDurationWithSpeedFloor ==
    StubCalled =>
        LET twice == stub_raw_duration(last.word_count, 2 * last.speed_tenths)
            divisor == IF 28 * last.speed_tenths >= 50 THEN 28 * last.speed_tenths ELSE 50
        IN  /\ last.total_samples = ClampedSamples(100 * last.word_count, divisor)
            /\ last.total_samples >= 8400 /\ last.total_samples <= 288000
            /\ 28 * last.speed_tenths >= 50 =>
                   /\ last.total_samples =
                          ClampedSamples(100 * last.word_count, 28 * last.speed_tenths)
                   /\ 2 * twice.num * last.raw.den = last.raw.num * twice.den
            /\ last.sample >= -9000 /\ last.sample <= 9000
            /\ last.exc = None => last.ret = "stub"

\* ten words at speed 1.0: 10 / 2.8 seconds
C15_Witness ==
    /\ StubCalled
    /\ last.word_count = 10
    /\ last.speed_tenths = 10
    /\ last.total_samples = 85714
    /\ last.ret = "stub"

\* one word at speed 0.1: 2 seconds, where 1 / 0.28 would be more than 3.5
C15_WitnessSlow ==
    /\ StubCalled
    /\ last.word_count = 1
    /\ last.speed_tenths = 1
    /\ last.total_samples = 48000

----------------------------------------------------------------------------
(* The renderer, call by call *)

\* the keyword arguments of the attempts, in their order
attempt_kwargs ==
    << {"voice", "speed", "lang_code"}, {"voice", "speed"}, {"voice"}, {} >>

\* what a call of generate does: it raises, or it gives results
KeywordOutcomes == {"TypeError", "Exception", "no_audio", "audio"}
PositionalOutcomes == {"Exception", "no_audio", "audio"}

\* the results of the call with the i-th arguments: a result with no audio, one
\* that is no array, an empty array, and with outcome audio two arrays of samples
\* that tell the call
generate(i, text_as, outcome) ==
    LET tone == 10 * i + (IF text_as = "keyword" THEN 1 ELSE 2)
        silent == << [kind |-> "none", samples |-> <<>>],
                     [kind |-> "unconvertible", samples |-> <<>>],
                     [kind |-> "array", samples |-> <<>>] >>
    IN  IF outcome = "audio"
        THEN <<[kind |-> "array", samples |-> <<tone>>]>> \o silent
                 \o <<[kind |-> "array", samples |-> <<tone + 100, tone + 200>>]>>
        ELSE silent

\* collect_chunks: the arrays that are not empty
RECURSIVE collect_chunks(_)
collect_chunks(results) ==
    IF results = <<>> THEN <<>>
    ELSE IF Head(results).kind = "array" /\ Head(results).samples # <<>>
    THEN <<Head(results).samples>> \o collect_chunks(Tail(results))
    ELSE collect_chunks(Tail(results))

\* np.concatenate
RECURSIVE concatenate(_)
concatenate(chunks) ==
    IF chunks = <<>> THEN <<>> ELSE Head(chunks) \o concatenate(Tail(chunks))

Called(i, text_as) == [kwargs |-> attempt_kwargs[i], text_as |-> text_as]

\* the loop that makes the positional call whenever the keyword call gave no audio
RECURSIVE render_loop_both(_, _, _)
render_loop_both(gen, i, made) ==
    IF i > Len(attempt_kwargs)
    THEN [exc |-> "RuntimeError", val |-> <<>>, made |-> made]
    ELSE LET keyword == made \o <<Called(i, "keyword")>>
             both == keyword \o <<Called(i, "positional")>>
             k == IF gen[i].keyword \in {"TypeError", "Exception"} THEN <<>>
                  ELSE collect_chunks(generate(i, "keyword", gen[i].keyword))
             p == IF gen[i].positional = "Exception" THEN <<>>
                  ELSE collect_chunks(generate(i, "positional", gen[i].positional))
         IN  IF k # <<>> THEN [exc |-> None, val |-> concatenate(k), made |-> keyword]
             ELSE IF p # <<>> THEN [exc |-> None, val |-> concatenate(p), made |-> both]
             ELSE render_loop_both(gen, i + 1, both)

\* server.py:344-359, from the i-th arguments on; made are the calls so far
RECURSIVE render_loop(_, _, _)
render_loop(gen, i, made) ==
    IF i > Len(attempt_kwargs)
    THEN [exc |-> "RuntimeError", val |-> <<>>, made |-> made]
    ELSE LET keyword == made \o <<Called(i, "keyword")>>
             both == keyword \o <<Called(i, "positional")>>
         IN  IF gen[i].keyword = "TypeError"
             THEN IF gen[i].positional = "Exception"
                  THEN render_loop(gen, i + 1, both)
                  ELSE LET chunks == collect_chunks(generate(i, "positional", gen[i].positional))
                       IN  IF chunks # <<>>
                           THEN [exc |-> None, val |-> concatenate(chunks), made |-> both]
                           ELSE render_loop(gen, i + 1, both)
             ELSE IF gen[i].keyword = "Exception"
             THEN render_loop(gen, i + 1, keyword)
             ELSE LET chunks == collect_chunks(generate(i, "keyword", gen[i].keyword))
                  IN  IF chunks # <<>>
                      THEN [exc |-> None, val |-> concatenate(chunks), made |-> keyword]
                      ELSE render_loop(gen, i + 1, keyword)

\* render_with_model, for a model that answers the calls as gen says
render_with_model_calls(gen, numpy) ==
    IF ~numpy
    THEN [exc |-> "RuntimeError", val |-> <<>>, made |-> <<>>]
    ELSE render_loop(gen, 1, <<>>)

InitRender ==
    /\ Idle
    /\ last \in [op : {"init"}, numpy : BOOLEAN,
                 gen : [1..Len(attempt_kwargs) ->
                           [keyword : KeywordOutcomes, positional : PositionalOutcomes]],
                 exc : {None}, ret : {<<>>}, made : {<<>>}]

RenderWithModel ==
    /\ last.op = "init"
    /\ LET r == render_with_model_calls(last.gen, last.numpy)
       IN  last' = [last EXCEPT !.op = "render_with_model", !.exc = r.exc,
                                !.ret = r.val, !.made = r.made]
    /\ UNCHANGED <<state, files, calls, probe_spawns, load_calls, threads>>

NextRender == RenderWithModel

SpecRender == InitRender /\ [][NextRender]_vars

Rendered == last.op = "render_with_model"

\* the n-th call of the order the claim gives: keyword then positional, for
\* each of the four argument sets
InOrder(n) ==
    [kwargs |-> attempt_kwargs[(n + 1) \div 2],
     text_as |-> IF n % 2 = 1 THEN "keyword" ELSE "positional"]

\* the index of the argument set of a call
SetOf(call) == CHOOSE i \in 1..Len(attempt_kwargs) : attempt_kwargs[i] = call.kwargs

\* the call gives at least one chunk that is not empty
Yields(call) ==
    IF call.text_as = "keyword"
    THEN last.gen[SetOf(call)].keyword = "audio"
    ELSE last.gen[SetOf(call)].positional = "audio"

\* the samples the call's results hold, in order
Audio(call) ==
    LET tone == 10 * SetOf(call) + (IF call.text_as = "keyword" THEN 1 ELSE 2)
    IN  <<tone, tone + 100, tone + 200>>

\* stops at the first call that yields audio and returns that call's audio;
\* RuntimeError iff no call made yields audio
StopsAtFirstAudio ==
    /\ \A n \in 1..(Len(last.made) - 1) : ~Yields(last.made[n])
    /\ last.exc \in {None, "RuntimeError"}
    /\ last.exc = "RuntimeError" <=> \A n \in 1..Len(last.made) : ~Yields(last.made[n])
    /\ last.exc = None => last.ret = Audio(last.made[Len(last.made)])

\* C19 as stated: render_with_model goes through the argument sets in their
\* order, each with the keyword-text call and then the positional-text call,
\* and stops at the first call that yields a non-empty chunk: no later call is
\* made, the waveform is the concatenation of that call's chunks, and
\* RuntimeError is raised iff no call yields audio.
C19_KeywordThenPositional ==
    Rendered /\ last.numpy =>
        /\ \A n \in 1..Len(last.made) : last.made[n] = InOrder(n)
        /\ Len(last.made) < 2 * Len(attempt_kwargs) => Yields(last.made[Len(last.made)])
        /\ StopsAtFirstAudio

\* C19, amended: render_with_model goes through the argument sets in their
\* order, each with the keyword-text call and, only when that call raises
\* TypeError, the positional-text call, and stops at the first call that
\* yields a non-empty chunk: no later call is made, the waveform is the
\* concatenation of that call's chunks, and RuntimeError is raised iff no call
\* that was made yields audio.
C19_PositionalOnTypeError ==
    Rendered =>
        /\ ~last.numpy => last.made = <<>>
        /\ last.numpy => last.made[1] = Called(1, "keyword")
        /\ \A n \in 1..(Len(last.made) - 1) :
               LET call == last.made[n]
                   next == last.made[n + 1]
               IN  IF call.text_as = "keyword" /\ last.gen[SetOf(call)].keyword = "TypeError"
                   THEN next = Called(SetOf(call), "positional")
                   ELSE /\ SetOf(call) < Len(attempt_kwargs)
                        /\ next = Called(SetOf(call) + 1, "keyword")
        /\ last.made # <<>> /\ ~Yields(last.made[Len(last.made)]) =>
               LET call == last.made[Len(last.made)]
               IN  /\ SetOf(call) = Len(attempt_kwargs)
                   /\ call.text_as = "keyword" => last.gen[SetOf(call)].keyword # "TypeError"
        /\ StopsAtFirstAudio

\* the keyword call of the first set gave no audio where the positional call
\* would have: it was not made, and the second set gave the audio
C19_Witness ==
    /\ Rendered
    /\ last.numpy
    /\ last.gen[1] = [keyword |-> "no_audio", positional |-> "audio"]
    /\ last.made = <<Called(1, "keyword"), Called(2, "keyword")>>
    /\ last.ret = <<21, 121, 221>>

\* TypeError on the keyword call, audio from the positional call
C19_WitnessPositional ==
    /\ Rendered
    /\ last.made = <<Called(1, "keyword"), Called(1, "positional")>>
    /\ last.ret = <<12, 112, 212>>

----------------------------------------------------------------------------
(* Two requests served at once.  The handlers are plain functions, which the
   server runs on a pool of threads; nothing in server.py takes a lock.  A
   step is one read or one write of RuntimeState, or the start or the end of a
   call that blocks (the probe child, the loader). *)

Threads == {"t1", "t2"}
ThreadOps == {"synthesize", "get_or_load_model"}

\* the environment of the process: MLX enabled, no secondary backend
ThreadEnvs == { [e EXCEPT !.KOKORO_BACKEND = "python"] : e \in SynthSourceEnvs }

ImportOutcomes == {"import_ok", "import_failed"}

\* a probe child has ended
ProbeCompleted == \E p \in Threads : threads[p].probe_exit # None

InitThreads ==
    /\ state = RuntimeState
    /\ files = [p \in OutputPaths |-> NoFile]
    /\ calls = 0
    /\ probe_spawns = 0
    /\ load_calls = [k \in ModelKinds |-> 0]
    /\ last = [op |-> "init", model |-> None, path |-> None, env |-> NoEnv,
               exc |-> None, ret |-> None, handle |-> NoHandle, ev |-> <<>>]
    /\ \E env \in ThreadEnvs, op \in [Threads -> ThreadOps], model \in [Threads -> ModelKinds] :
         threads = [t \in Threads |->
                      [op |-> op[t], model |-> model[t], env |-> env,
                       pc |-> "available",
                       caller |-> IF op[t] = "synthesize" THEN "synthesize" ELSE "get_mlx_loader",
                       avail |-> None, early |-> FALSE, sent_early |-> FALSE,
                       probe_exit |-> None,
                       missed |-> FALSE, stored |-> FALSE, source |-> None,
                       handle |-> NoHandle, ret |-> None, exc |-> None]]

At(t, pc) == threads[t].pc = pc
Becomes(t, l) == threads' = [threads EXCEPT ![t] = l]

\* get_or_load_model raised: synthesize catches it and goes to the stub
Raised(l, exc) ==
    IF l.op = "synthesize"
    THEN [l EXCEPT !.pc = "stub"]
    ELSE [l EXCEPT !.pc = "done", !.exc = exc]

\* get_or_load_model returned a handle
Loaded(l, handle) ==
    IF l.op = "synthesize"
    THEN [l EXCEPT !.pc = "render", !.handle = handle]
    ELSE [l EXCEPT !.pc = "done", !.handle = handle]

\* server.py:454: if not STATE.mlx_probe_attempted
TAvailable(t) ==
    /\ At(t, "available")
    /\ Becomes(t, [threads[t] EXCEPT !.pc = IF state.mlx_probe_attempted
                                            THEN "read_available" ELSE "probe"])
    /\ UNCHANGED <<state, files, calls, probe_spawns, load_calls, last>>

\* server.py:460-461: if STATE.mlx_probe_attempted: return
TProbeGuard(t) ==
    /\ At(t, "probe")
    /\ Becomes(t, [threads[t] EXCEPT !.pc = IF state.mlx_probe_attempted
                                            THEN "read_available" ELSE "probe_set"])
    /\ UNCHANGED <<state, files, calls, probe_spawns, load_calls, last>>

\* server.py:463
TProbeSet(t) ==
    /\ At(t, "probe_set")
    /\ state' = [state EXCEPT !.mlx_probe_attempted = TRUE]
    /\ Becomes(t, [threads[t] EXCEPT !.pc = "probe_run"])
    /\ UNCHANGED <<files, calls, probe_spawns, load_calls, last>>

\* server.py:466: the child starts
TProbeRun(t) ==
    /\ At(t, "probe_run")
    /\ probe_spawns' = probe_spawns + 1
    /\ Becomes(t, [threads[t] EXCEPT !.pc = "probe_wait"])
    /\ UNCHANGED <<state, files, calls, load_calls, last>>

\* server.py:473 and 479: the child ended, mlx_probe_available is written
TProbeExit(t) ==
    /\ At(t, "probe_wait")
    /\ \E o \in ProbeOutcomes :
         /\ state' = [state EXCEPT !.mlx_probe_available = (o = "exit0")]
         /\ Becomes(t, [threads[t] EXCEPT !.probe_exit = o,
                                          !.pc = IF o = "exit0" THEN "read_available"
                                                 ELSE "probe_error"])
    /\ UNCHANGED <<files, calls, probe_spawns, load_calls, last>>

\* server.py:474-477 and 480
TProbeError(t) ==
    /\ At(t, "probe_error")
    /\ state' = [state EXCEPT !.mlx_probe_error =
                     IF threads[t].probe_exit = "exit1" THEN "probe_exit_1"
                     ELSE "TimeoutExpired"]
    /\ Becomes(t, [threads[t] EXCEPT !.pc = "read_available"])
    /\ UNCHANGED <<files, calls, probe_spawns, load_calls, last>>

\* server.py:456: return STATE.mlx_probe_available, to synthesize (267) or to
\* get_mlx_loader (484), which get_or_load_model calls (430-432)
TReadAvailable(t) ==
    /\ At(t, "read_available")
    /\ LET v == state.mlx_probe_available
           l == [threads[t] EXCEPT !.avail = IF v THEN "True" ELSE "False",
                                   !.early = ~ProbeCompleted]
       IN  Becomes(t,
               IF l.caller = "synthesize"
               THEN IF v
                    THEN [l EXCEPT !.pc = "available", !.caller = "get_mlx_loader"]
                    ELSE [l EXCEPT !.pc = "stub", !.sent_early = ~ProbeCompleted]
               ELSE IF v
                    THEN [l EXCEPT !.pc = "loader"]
                    ELSE Raised(l, "RuntimeError"))
    /\ UNCHANGED <<state, files, calls, probe_spawns, load_calls, last>>

\* server.py:487-488: if STATE.mlx_load_model is not None
TGetLoader(t) ==
    /\ At(t, "loader")
    /\ Becomes(t, [threads[t] EXCEPT !.pc = IF state.mlx_load_model # None
                                            THEN "cache" ELSE "import"])
    /\ UNCHANGED <<state, files, calls, probe_spawns, load_calls, last>>

\* server.py:490-498: the import in the server's own process
TImport(t) ==
    /\ At(t, "import")
    /\ \E o \in ImportOutcomes :
         IF o = "import_ok"
         THEN /\ state' = [state EXCEPT !.mlx_load_model = "load_model"]
              /\ Becomes(t, [threads[t] EXCEPT !.pc = "cache"])
         ELSE /\ state' = [state EXCEPT !.mlx_probe_available = FALSE,
                                        !.mlx_probe_error = "ImportError"]
              /\ Becomes(t, Raised(threads[t], "RuntimeError"))
    /\ UNCHANGED <<files, calls, probe_spawns, load_calls, last>>

\* TCacheLookup that on a miss claims the entry for its own load
TCacheLookupClaiming(t) ==
    /\ At(t, "cache")
    /\ LET cached == state.model_cache[threads[t].model]
       IN  IF cached # NoHandle
           THEN /\ Becomes(t, Loaded(threads[t], cached))
                /\ UNCHANGED state
           ELSE /\ Becomes(t, [threads[t] EXCEPT !.missed = TRUE, !.pc = "resolve"])
                /\ state' = [state EXCEPT !.model_cache[threads[t].model] = -1]
    /\ UNCHANGED <<files, calls, probe_spawns, load_calls, last>>

\* server.py:434-436: cached = STATE.model_cache.get(model_kind)
TCacheLookup(t) ==
    /\ At(t, "cache")
    /\ LET cached == state.model_cache[threads[t].model]
       IN  IF cached # NoHandle
           THEN /\ Becomes(t, Loaded(threads[t], cached))
                /\ UNCHANGED state
           ELSE /\ Becomes(t, [threads[t] EXCEPT !.missed = TRUE, !.pc = "resolve"])
                /\ UNCHANGED state
    /\ UNCHANGED <<files, calls, probe_spawns, load_calls, last>>

\* server.py:438
TResolveSource(t) ==
    /\ At(t, "resolve")
    /\ LET source == resolve_model_source(threads[t].model, threads[t].env)
       IN  Becomes(t, IF source.exc # None
                      THEN Raised(threads[t], source.exc)
                      ELSE [threads[t] EXCEPT !.source = source.val, !.pc = "load"])
    /\ UNCHANGED <<state, files, calls, probe_spawns, load_calls, last>>

\* server.py:440: the loader is called
TLoadModel(t) ==
    /\ At(t, "load")
    /\ load_calls' = [load_calls EXCEPT ![threads[t].model] = @ + 1]
    /\ Becomes(t, [threads[t] EXCEPT !.pc = "loading", !.handle = Loads(load_calls')])
    /\ UNCHANGED <<state, files, calls, probe_spawns, last>>

\* server.py:440: the loader returns the handle, or raises
TModelLoaded(t) ==
    /\ At(t, "loading")
    /\ \E o \in LoaderOutcomes :
         Becomes(t, IF o = "loaded"
                    THEN [threads[t] EXCEPT !.pc = "store"]
                    ELSE Raised([threads[t] EXCEPT !.handle = NoHandle], "Exception"))
    /\ UNCHANGED <<state, files, calls, probe_spawns, load_calls, last>>

\* server.py:441
TStoreModel(t) ==
    /\ At(t, "store")
    /\ state' = [state EXCEPT !.model_cache[threads[t].model] = threads[t].handle]
    /\ Becomes(t, [threads[t] EXCEPT !.stored = TRUE, !.pc = "store_source"])
    /\ UNCHANGED <<files, calls, probe_spawns, load_calls, last>>

\* server.py:442-443
TStoreSource(t) ==
    /\ At(t, "store_source")
    /\ state' = [state EXCEPT !.model_source[threads[t].model] = threads[t].source]
    /\ Becomes(t, Loaded(threads[t], threads[t].handle))
    /\ UNCHANGED <<files, calls, probe_spawns, load_calls, last>>

\* server.py:325-326 and 295: the model renders and the file is written, or not
TRender(t) ==
    /\ At(t, "render")
    /\ \E r \in RenderOutcomes, o \in WriteOutcomes, output_path \in OutputPaths :
         IF r = "audio" /\ o = "written"
         THEN /\ files' = [files EXCEPT ![output_path] =
                              [engine |-> "mlx-audio", call |-> calls + 1]]
              /\ calls' = calls + 1
              /\ Becomes(t, [threads[t] EXCEPT !.pc = "done", !.ret = "mlx-audio"])
         ELSE /\ Becomes(t, [threads[t] EXCEPT !.pc = "stub"])
              /\ UNCHANGED <<files, calls>>
    /\ UNCHANGED <<state, probe_spawns, load_calls, last>>

\* server.py:281-282 and 309-310
TStub(t) ==
    /\ At(t, "stub")
    /\ \E o \in synthesize_stub(World(state, files, load_calls, calls + 1),
                                CHOOSE output_path \in OutputPaths : TRUE) :
         /\ files' = o.w.fs
         /\ calls' = calls + 1
         /\ Becomes(t, [threads[t] EXCEPT !.pc = "done", !.ret = o.val, !.exc = o.exc])
    /\ UNCHANGED <<state, probe_spawns, load_calls, last>>

NextThreads ==
    \E t \in Threads :
        \/ TAvailable(t)
        \/ TProbeGuard(t)
        \/ TProbeSet(t)
        \/ TProbeRun(t)
        \/ TProbeExit(t)
        \/ TProbeError(t)
        \/ TReadAvailable(t)
        \/ TGetLoader(t)
        \/ TImport(t)
        \/ TCacheLookup(t)
        \/ TResolveSource(t)
        \/ TLoadModel(t)
        \/ TModelLoaded(t)
        \/ TStoreModel(t)
        \/ TStoreSource(t)
        \/ TRender(t)
        \/ TStub(t)

SpecThreads == InitThreads /\ [][NextThreads]_vars

SameKind(t, u) == t # u /\ threads[t].model = threads[u].model
Missed(k) == {t \in Threads : threads[t].model = k /\ threads[t].missed}

\* C17: the load-once guarantee of the model cache is not race-free.  Until a
\* thread has stored a handle for a kind the cache entry stays empty, so a
\* thread that looks the kind up while another one is loading it observes a
\* miss as well; every thread that observed a miss and resolved the source
\* invokes the loader, and each invocation returns its own handle: with two
\* threads on the same kind the loader can run twice and the second store
\* replaces the handle the first caller received.
C17_LoadOnceNotRaceFree ==
    \A k \in ModelKinds :
        /\ state.model_cache[k] # NoHandle =>
               \E u \in Threads : /\ threads[u].model = k
                                  /\ threads[u].stored
                                  /\ state.model_cache[k] = threads[u].handle
        /\ load_calls[k] <= Cardinality(Missed(k))
        /\ load_calls[k] >= Cardinality({t \in Missed(k) : threads[t].handle # NoHandle})
        /\ \A t \in Missed(k) :
               threads[t].pc \in {"load", "loading", "store", "store_source"}
                   \/ threads[t].stored => threads[t].source # None
        /\ \A t, u \in Threads :
               SameKind(t, u) /\ threads[t].stored /\ threads[u].stored =>
                   /\ threads[t].missed /\ threads[u].missed
                   /\ load_calls[threads[t].model] = 2
                   /\ threads[t].handle # threads[u].handle

\* both threads missed, the loader ran twice, and the cache holds another
\* handle than the one the first caller has returned with
C17_Witness ==
    \E t, u \in Threads :
        /\ SameKind(t, u)
        /\ threads[t].op = "get_or_load_model" /\ threads[u].op = "get_or_load_model"
        /\ threads[t].missed /\ threads[u].missed
        /\ load_calls[threads[t].model] = 2
        /\ threads[t].pc = "done" /\ threads[t].exc = None
        /\ threads[u].stored
        /\ state.model_cache[threads[t].model] = threads[u].handle
        /\ threads[t].handle # threads[u].handle

\* the first caller has returned with the cached handle and the second thread
\* is about to store its own
C17_WitnessBeforeStore ==
    \E t, u \in Threads :
        /\ SameKind(t, u)
        /\ threads[t].pc = "done"
        /\ threads[t].handle # NoHandle
        /\ state.model_cache[threads[t].model] = threads[t].handle
        /\ threads[u].pc = "store"
        /\ threads[u].handle # threads[t].handle

\* C18: with the enable flag on, every call of mlx_runtime_available returns
\* the outcome of the one completed probe, true iff its child exited zero, also
\* when another thread's probe child is still running; no synthesize goes to
\* the stub for having read the flag before the probe in flight had ended.
C18_AvailableIsProbeOutcome ==
    \A t \in Threads :
        /\ threads[t].avail # None =>
               /\ ~threads[t].early
               /\ \A p \in Threads :
                      threads[p].probe_exit # None =>
                          (threads[t].avail = "True" <=> threads[p].probe_exit = "exit0")
        /\ ~threads[t].sent_early

----------------------------------------------------------------------------
(* Backend mode: one request for every value of the mode selector *)

\* values of LOCAL_PODCAST_KOKORO_BACKEND, the five the code names among them
ModeValues ==
    {Unset, "", "auto", " Auto ", "node", "NODE", "node-first", " Node-First ",
     "node-fallback", "python-node", "Python-Node", "python", "mlx", "node first",
     "fallback"}

\* RuntimeState and the counters before the request: a fresh process, one whose
\* probe failed, one that has loaded both models
ModeStarts ==
    { [st |-> RuntimeState, lc |-> [k \in ModelKinds |-> 0], calls |-> 0, spawns |-> 0],
      [st |-> [RuntimeState EXCEPT !.mlx_probe_attempted = TRUE,
                                   !.mlx_probe_error = "probe_exit_1"],
       lc |-> [k \in ModelKinds |-> 0], calls |-> 1, spawns |-> 1],
      [st |-> [RuntimeState EXCEPT !.mlx_probe_attempted = TRUE,
                                   !.mlx_probe_available = TRUE,
                                   !.mlx_load_model = "load_model",
                                   !.model_cache = [kokoro |-> 1, chatterbox |-> 2],
                                   !.model_source = [k \in ModelKinds |-> LocalDir("/models", k)]],
       lc |-> [k \in ModelKinds |-> 1], calls |-> 2, spawns |-> 1] }

InitModes ==
    /\ \E start \in ModeStarts :
         /\ state = start.st
         /\ load_calls = start.lc
         /\ calls = start.calls
         /\ probe_spawns = start.spawns
    /\ files = [p \in OutputPaths |-> NoFile]
    /\ threads = <<>>
    /\ \E model \in ModelKinds, src \in SynthSourceEnvs, en \in {Unset, "0"},
          mode \in ModeValues :
         last = [op |-> "init", model |-> model, path |-> None,
                 env |-> [src EXCEPT !.ENABLE_MLX = en, !.KOKORO_BACKEND = mode],
                 exc |-> None, ret |-> None, handle |-> NoHandle, ev |-> <<>>]

ShouldTryNodeBeforePython ==
    /\ last.op = "init"
    /\ Applied("should_try_node_before_python",
               [before |-> should_try_node_before_python(last.model, last.env)])

\* server.py:268 and 296 after 252
ShouldTryNodeAfterPython ==
    /\ last.op = "should_try_node_before_python"
    /\ Applied("should_try_node_after_python",
               [before |-> last.ret.before,
                after |-> should_try_node_after_python(last.model, last.env)])

SynthesizeInMode ==
    /\ last.op = "init"
    /\ \E output_path \in OutputPaths :
         \E o \in synthesize(Start, output_path, last.model, last.env) :
             Finish("synthesize", last.model, output_path, last.env, o, o.val, NoHandle)

NextModes ==
    \/ ShouldTryNodeBeforePython
    \/ ShouldTryNodeAfterPython
    \/ SynthesizeInMode

SpecModes == InitModes /\ [][NextModes]_vars

\* the mode values the two tests name
RecognisedModes == {"auto", "node", "node-first", "node-fallback", "python-node"}

ModeTested == last.op = "should_try_node_after_python"

\* C21: for a model kind other than kokoro, synthesize never invokes the
\* secondary backend invoker, whatever the backend mode and whatever the
\* primary backend does, so the engine of its result is mlx-audio or stub; for
\* kokoro, every mode that enables the secondary-first attempt also enables the
\* secondary-after-primary attempt, and a mode value that is not recognised
\* enables neither.
C21_SecondaryOnlyForKokoro ==
    /\ Synthesized /\ last.model # "kokoro" =>
           /\ ~NodeAttempted(last.ev)
           /\ ~Has(last.ev, "node_first")
           /\ Returned => last.ret \in {"mlx-audio", "stub"}
    /\ ModeTested /\ last.model # "kokoro" =>
           ~last.ret.before /\ ~last.ret.after
    /\ ModeTested /\ last.model = "kokoro" =>
           /\ last.ret.before => last.ret.after
           /\ kokoro_backend_mode(last.env) \notin RecognisedModes =>
                  ~last.ret.before /\ ~last.ret.after

\* chatterbox in node-first mode, the primary backend failing: the stub
C21_Witness ==
    /\ Synthesized
    /\ last.model = "chatterbox"
    /\ kokoro_backend_mode(last.env) = "node-first"
    /\ Has(last.ev, "mlx_failed")
    /\ last.ret = "stub"

\* kokoro in a mode that enables both attempts
C21_WitnessBoth ==
    /\ ModeTested
    /\ last.model = "kokoro"
    /\ last.ret.before
    /\ last.ret.after

\* kokoro in a mode that is not recognised
C21_WitnessUnrecognised ==
    /\ ModeTested
    /\ last.model = "kokoro"
    /\ last.env.KOKORO_BACKEND = "node first"
    /\ ~last.ret.after

----------------------------------------------------------------------------
(* The two maps of the model cache *)

CacheKeys(st) == {k \in ModelKinds : st.model_cache[k] # NoHandle}
SourceKeys(st) == {k \in ModelKinds : st.model_source[k] # None}

GetOrLoadModelFailed == last.op = "get_or_load_model" /\ last.exc # None

\* the loader was called for kind k in the operation just completed, and returned
LoadSucceeded(k) ==
    /\ last.model = k
    /\ Has(last.ev, "loader")
    /\ \/ last.op = "get_or_load_model" /\ last.exc = None
       \/ last.op = "synthesize" /\ Has(last.ev, "load_ok")

\* C22: a get_or_load_model call that fails (runtime unavailable, source
\* unresolvable, loader raising) leaves model_cache and model_source as they
\* were; after every completed operation the two maps have the same key set;
\* a kind is in it exactly when a load of that kind has succeeded; and health
\* reports that set as loaded_models.
C22_CacheAndSourceAgree ==
    [][ /\ GetOrLoadModelFailed' =>
               /\ state'.model_cache = state.model_cache
               /\ state'.model_source = state.model_source
        /\ CacheKeys(state') = SourceKeys(state')
        /\ \A k \in ModelKinds :
               k \in CacheKeys(state') <=> k \in CacheKeys(state) \/ LoadSucceeded(k)'
        /\ last'.op = "health" => last'.loaded_models = CacheKeys(state')
      ]_vars

\* the loader raises for one kind while the other kind is loaded
C22_Witness ==
    /\ GetOrLoadModelFailed
    /\ Has(last.ev, "loader")
    /\ CacheKeys(state) # {}
    /\ last.model \notin CacheKeys(state)

\* health in a process that has loaded a model
C22_WitnessHealth ==
    /\ last.op = "health"
    /\ last.loaded_models = {"kokoro"}

----------------------------------------------------------------------------
(* RuntimeState between operations *)

\* C23: in every state reached by operations served one after the other,
\* mlx_probe_available implies mlx_probe_attempted and no mlx_probe_error; the
\* loader reference is set only if the probe reported available; and
\* model_cache is non-empty only if the loader reference is set.
C23_RuntimeStateInvariant ==
    /\ state.mlx_probe_available =>
           state.mlx_probe_attempted /\ state.mlx_probe_error = None
    /\ state.mlx_load_model # None => state.mlx_probe_available
    /\ CacheKeys(state) # {} => state.mlx_load_model # None

\* a process that has probed, imported the loader and loaded a model
C23_Witness ==
    /\ state.mlx_probe_available
    /\ state.mlx_load_model # None
    /\ CacheKeys(state) # {}

\* a process whose probe succeeded and whose import failed afterwards
C23_WitnessImportFailed ==
    /\ state.mlx_probe_attempted
    /\ ~state.mlx_probe_available
    /\ state.mlx_probe_error = "ImportError"
    /\ state.mlx_load_model = None

====
